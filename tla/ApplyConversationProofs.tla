----------------------- MODULE ApplyConversationProofs -----------------------
(* Proofs about ApplyConversation, for every set of conversations, every    *)
(* number of questions and every bound on clicks, runs and messages.        *)
EXTENDS ApplyConversation, TLAPS

-----------------------------------------------------------------------------
(* Names of states are told apart, and the number of a question can be read *)
(* off its name.                                                            *)

LEMMA NamesDiffer ==
  /\ \A i : /\ Question(i) \notin {Intro, Confirm, Submit, Reset, EditSelect, Cancelled, Unset}
            /\ Question(i)[2] = i
  /\ \A i, j : Question(i) = Question(j) => i = j
  /\ Intro \notin {Confirm, Submit, Reset, EditSelect, Cancelled, Unset}
  /\ Confirm \notin {Submit, Reset, EditSelect, Cancelled, Unset}
  /\ Submit \notin {Reset, EditSelect, Cancelled, Unset}
  /\ Reset \notin {EditSelect, Cancelled, Unset}
  /\ EditSelect \notin {Cancelled, Unset}
  /\ Cancelled # Unset
  BY DEF Question, Intro, Confirm, Submit, Reset, EditSelect, Cancelled, Unset

LEMMA NamesAreStates ==
  /\ {Intro, Confirm, Submit, Reset, EditSelect, Cancelled} \subseteq States
  /\ \A i \in Numbers : Question(i) \in States
  /\ Unset \notin States
  /\ \A s \in States : s \in {Intro, Confirm, Submit, Reset, EditSelect, Cancelled}
                       \/ \E i \in Numbers : s = Question(i)
  BY NamesDiffer DEF States

LEMMA NumbersFacts ==
  ASSUME setup \in Setups
  PROVE  /\ N \in Nat \ {0} /\ 1 \in Numbers /\ Numbers \subseteq Nat \ {0}
         /\ \A i \in Numbers : /\ i # N => i + 1 \in Numbers
                               /\ i > 1 => i - 1 \in Numbers
         /\ Runs \subseteq Nat \ {0}
  BY SetupsAssumption DEF N, Numbers, Runs

(* A message on its way. *)

Notices == {"intro", "invalid", "submitted", "failed", "cancelled"}

LEMMA MessageShape ==
  ASSUME NEW m \in Messages
  PROVE  /\ m.what = "prompt" => m.of \in States /\ m = Prompt(m.of)
         /\ m.what # "prompt" => m.what \in Notices /\ m = Notice(m.what)
  BY DEF Messages, Prompt, Notice, Notices

LEMMA MessageBuilt ==
  /\ \A s \in States : Prompt(s) \in Messages /\ Prompt(s).what = "prompt" /\ Prompt(s).of = s
  /\ \A w \in Notices : Notice(w) \in Messages /\ Notice(w).what = w
  BY DEF Messages, Prompt, Notice, Notices

-----------------------------------------------------------------------------
(* What is on its way in a conversation.                                    *)

Flies(q, w) == \E i \in 1 .. Len(q) : q[i].what = w
IntroFirst(q) == \A i \in 2 .. Len(q) : q[i].what # "intro"

LEMMA AppendFlies ==
  ASSUME NEW q \in Seq(Messages), NEW m \in Messages
  PROVE  /\ Append(q, m) \in Seq(Messages) /\ Append(q, m) # <<>>
         /\ \A w : Flies(Append(q, m), w) <=> Flies(q, w) \/ m.what = w
         /\ IntroFirst(q) /\ (q = <<>> \/ m.what # "intro") => IntroFirst(Append(q, m))
  <1>1. /\ Append(q, m) \in Seq(Messages) /\ Len(Append(q, m)) = Len(q) + 1 /\ Len(q) \in Nat
        /\ \A i \in 1 .. Len(q) : Append(q, m)[i] = q[i]
        /\ Append(q, m)[Len(q) + 1] = m
    OBVIOUS
  <1>2. ASSUME NEW w PROVE Flies(Append(q, m), w) <=> Flies(q, w) \/ m.what = w
    BY <1>1 DEF Flies
  <1>3. IntroFirst(q) /\ (q = <<>> \/ m.what # "intro") => IntroFirst(Append(q, m))
    BY <1>1 DEF IntroFirst
  <1> QED
    BY <1>1, <1>2, <1>3

LEMMA TailFlies ==
  ASSUME NEW q \in Seq(Messages), q # <<>>
  PROVE  /\ Tail(q) \in Seq(Messages) /\ Head(q) \in Messages
         /\ \A w : Flies(q, w) <=> Flies(Tail(q), w) \/ Head(q).what = w
         /\ IntroFirst(q) => ~Flies(Tail(q), "intro") /\ IntroFirst(Tail(q))
  <1>1. /\ Tail(q) \in Seq(Messages) /\ Head(q) \in Messages /\ Head(q) = q[1]
        /\ Len(q) \in Nat \ {0} /\ Len(Tail(q)) = Len(q) - 1
        /\ \A i \in 1 .. Len(q) - 1 : Tail(q)[i] = q[i + 1]
    OBVIOUS
  <1>2. ASSUME NEW w PROVE Flies(q, w) <=> Flies(Tail(q), w) \/ Head(q).what = w
    <2>1. ASSUME Flies(q, w) PROVE Flies(Tail(q), w) \/ Head(q).what = w
      <3>1. PICK i \in 1 .. Len(q) : q[i].what = w
        BY <2>1 DEF Flies
      <3>2. CASE i = 1
        BY <1>1, <3>1, <3>2
      <3>3. CASE i # 1
        <4>1. i - 1 \in 1 .. Len(Tail(q)) /\ Tail(q)[i - 1] = q[i]
          BY <1>1, <3>3
        <4> QED
          BY <3>1, <4>1 DEF Flies
      <3> QED
        BY <3>2, <3>3
    <2>2. ASSUME Flies(Tail(q), w) PROVE Flies(q, w)
      <3>1. PICK i \in 1 .. Len(Tail(q)) : Tail(q)[i].what = w
        BY <2>2 DEF Flies
      <3>2. i + 1 \in 1 .. Len(q) /\ q[i + 1] = Tail(q)[i]
        BY <1>1
      <3> QED
        BY <3>1, <3>2 DEF Flies
    <2>3. ASSUME Head(q).what = w PROVE Flies(q, w)
      BY <1>1, <2>3 DEF Flies
    <2> QED
      BY <2>1, <2>2, <2>3
  <1>3. IntroFirst(q) => ~Flies(Tail(q), "intro") /\ IntroFirst(Tail(q))
    BY <1>1 DEF IntroFirst, Flies
  <1> QED
    BY <1>1, <1>2, <1>3


-----------------------------------------------------------------------------
(* Where a conversation can be.  It begins with nothing asked; it walks     *)
(* through the questions with every earlier one answered; once complete it  *)
(* stays complete, confirming, choosing a question to edit or editing it.   *)

Beginning(cv) ==
  /\ cv.kind = "none"
  /\ cv.at \in {Intro, Question(1)} /\ cv.next = Unset /\ ~cv.editing /\ cv.answers = {}
  /\ cv.menu = {} /\ cv.armed = "none" /\ cv.run = 0 /\ cv.message = Unset

AtQuestion(cv) == \E i \in Numbers : cv.at = Question(i) /\ 1 .. i - 1 \subseteq cv.answers
AtConfirm(cv) == cv.at = Confirm /\ cv.answers = Numbers

WalkMenu(i) == {Cancelled} \cup (IF i > 1 THEN {Question(i - 1), Reset} ELSE {})
Walking(cv) ==
  /\ cv.kind = "both" /\ ~cv.editing /\ cv.armed = "answer" /\ cv.run = 0
  /\ 1 .. cv.index - 1 \subseteq cv.answers
  /\ cv.next = IF cv.index = N THEN Confirm ELSE Question(cv.index + 1)
  /\ cv.menu = WalkMenu(cv.index)
  /\ cv.at = Cancelled \/ AtQuestion(cv) \/ AtConfirm(cv)

Editing(cv) ==
  /\ cv.kind = "both" /\ cv.editing /\ cv.armed \in {"answer", "none"}
  /\ cv.next = Confirm /\ cv.menu = {Confirm, Cancelled}
  /\ cv.at = Cancelled \/ \E i \in Numbers : cv.at = Question(i)
Confirming(cv) ==
  /\ cv.kind = "reaction" /\ ~cv.editing
  /\ cv.menu = {Submit, EditSelect, Cancelled} /\ cv.at \in {Confirm, Submit, Cancelled}
Selecting(cv) ==
  /\ cv.kind = "text" /\ ~cv.editing /\ cv.armed = "select"
  /\ cv.next = EditSelect /\ cv.at = EditSelect
Complete(cv) == cv.answers = Numbers /\ (Editing(cv) \/ Confirming(cv) \/ Selecting(cv))

Placed(cv) == Beginning(cv) \/ Walking(cv) \/ Complete(cv)

\* Where a handler may be about to enter a state.
Early(cv) ==
  \/ Beginning(cv)
  \/ ~cv.editing /\ cv.run = 0 /\ (AtQuestion(cv) \/ cv.at = Reset)
  \/ Walking(cv) /\ cv.at = Cancelled
Late(cv) ==
  /\ cv.answers = Numbers
  /\ \/ ~cv.editing /\ cv.at = EditSelect
     \/ cv.editing /\ \E i \in Numbers : cv.at = Question(i)
     \/ Complete(cv) /\ cv.at = Cancelled
     \/ Confirming(cv) /\ cv.at = Submit
Ready(cv) == Early(cv) \/ AtConfirm(cv) \/ Late(cv)

LEMMA AskingFacts ==
  ASSUME setup \in Setups, NEW cv \in Conv, NEW i \in Numbers
  PROVE  /\ Asking(cv, i) \in Conv
         /\ Awaited(Asking(cv, i)) = Question(i)
         /\ ~cv.editing /\ cv.run = 0 /\ 1 .. i - 1 \subseteq cv.answers
              /\ (cv.at = Cancelled \/ AtQuestion(cv) \/ AtConfirm(cv)) => Walking(Asking(cv, i))
         /\ cv.editing /\ cv.answers = Numbers
              /\ (cv.at = Cancelled \/ \E j \in Numbers : cv.at = Question(j)) => Complete(Asking(cv, i))
  <1> DEFINE n == IF cv.editing \/ i = N THEN Confirm ELSE Question(i + 1)
             m == IF cv.editing THEN {Confirm, Cancelled} ELSE WalkMenu(i)
             a == Asking(cv, i)
  <1>1. n \in States
    BY NamesAreStates, NumbersFacts
  <1>2. m \in SUBSET States
    BY NamesAreStates, NumbersFacts DEF WalkMenu
  <1>3. a = [cv EXCEPT !.index = i, !.kind = "both", !.armed = "answer", !.next = n, !.menu = m]
    BY DEF Asking, WalkMenu
  <1>4. /\ a.index = i /\ a.kind = "both" /\ a.armed = "answer" /\ a.next = n /\ a.menu = m
        /\ a.at = cv.at /\ a.editing = cv.editing /\ a.answers = cv.answers /\ a.run = cv.run
    <2> HIDE DEF n, m
    <2> QED
      BY <1>3 DEF Conv
  <1>5. a \in Conv
    <2> HIDE DEF n, m, a
    <2> QED
      BY <1>1, <1>2, <1>3 DEF Conv
  <1>6. Awaited(a) = Question(i)
    <2> HIDE DEF n, m, a
    <2> QED
      BY <1>4 DEF Awaited
  <1>7. ASSUME ~cv.editing, cv.run = 0, 1 .. i - 1 \subseteq cv.answers,
               cv.at = Cancelled \/ AtQuestion(cv) \/ AtConfirm(cv)
        PROVE  Walking(a)
    <2>1. n = (IF i = N THEN Confirm ELSE Question(i + 1)) /\ m = WalkMenu(i)
      BY <1>7
    <2> HIDE DEF n, m, a
    <2> QED
      BY <1>4, <1>7, <2>1 DEF Walking, AtQuestion, AtConfirm
  <1>8. ASSUME cv.editing, cv.answers = Numbers,
               cv.at = Cancelled \/ \E j \in Numbers : cv.at = Question(j)
        PROVE  Complete(a)
    <2>1. n = Confirm /\ m = {Confirm, Cancelled}
      BY <1>8
    <2> HIDE DEF n, m, a
    <2> QED
      BY <1>4, <1>8, <2>1 DEF Complete, Editing
  <1> QED
    BY <1>5, <1>6, <1>7, <1>8

\* Entering the state a handler was ready for leaves the conversation at one of its
\* places, and the message it sends is the prompt of what it now waits for.
LEMMA EnteredFacts ==
  ASSUME setup \in Setups, NEW cv \in Conv, Ready(cv), cv.at # Submit
  PROVE  LET e == Entered(cv) IN
         /\ e \in Conv /\ Placed(e)
         /\ e.run = cv.run /\ e.submission = cv.submission /\ e.message = cv.message /\ e.at # Intro
         /\ cv.at # Intro => e.kind # "none"
         /\ AtConfirm(cv) => Complete(e) /\ e.kind = "reaction" /\ e.at = Confirm
         /\ Late(cv) => Complete(e)
         /\ Early(cv) => ~Complete(e)
         /\ cv.at \notin {Intro, Cancelled} => Awaited(e) = e.at
         /\ cv.at = Intro => Beginning(cv) /\ Beginning(e)
         /\ cv.at = Cancelled => e = cv
  <1> DEFINE e == Entered(cv)
  <1>1. /\ \A x : Beginning(x) \/ Walking(x) => ~Complete(x)
        /\ \A x : Walking(x) \/ Complete(x) => x.kind # "none"
    BY DEF Beginning, Walking, Complete, Editing, Confirming, Selecting
  <1>2. CASE cv.at = Intro
    <2>1. Beginning(cv) /\ ~AtConfirm(cv) /\ ~Late(cv)
      BY <1>2, NamesDiffer DEF Ready, Early, AtConfirm, Late, AtQuestion
    <2>2. e = [cv EXCEPT !.at = Question(1)]
      BY <1>2 DEF Entered
    <2>3. e \in Conv /\ Beginning(e) /\ e.at = Question(1) /\ e.run = cv.run /\ e.submission = cv.submission /\ e.message = cv.message
      <3> HIDE DEF e
      <3> QED
        BY <2>1, <2>2, NamesAreStates, NumbersFacts DEF Conv, Beginning
    <2> QED
      BY <1>1, <1>2, <2>1, <2>3, NamesDiffer DEF Placed
  <1>3. CASE cv.at = Confirm
    <2>1. AtConfirm(cv) /\ ~Early(cv)
      BY <1>3, NamesDiffer DEF Ready, Early, AtConfirm, Late, AtQuestion, Beginning
    <2>2. e = [cv EXCEPT !.editing = FALSE, !.kind = "reaction", !.menu = {Submit, EditSelect, Cancelled}]
      BY <1>3, NamesDiffer DEF Entered
    <2>3. /\ e \in Conv /\ e.at = Confirm /\ e.kind = "reaction" /\ ~e.editing /\ e.answers = cv.answers
          /\ e.menu = {Submit, EditSelect, Cancelled}
          /\ e.run = cv.run /\ e.submission = cv.submission /\ e.message = cv.message
      <3> HIDE DEF e
      <3> QED
        BY <1>3, <2>2, NamesAreStates DEF Conv
    <2>4. Complete(e) /\ Awaited(e) = Confirm
      <3> HIDE DEF e
      <3> QED
        BY <2>1, <2>3 DEF Complete, Confirming, AtConfirm, Awaited
    <2> QED
      BY <1>3, <2>1, <2>3, <2>4, NamesDiffer DEF Placed
  <1>4. CASE cv.at = EditSelect
    <2>1. ~Early(cv) /\ ~AtConfirm(cv) /\ ~cv.editing /\ cv.answers = Numbers
      BY <1>4, NamesDiffer DEF Ready, Early, AtConfirm, Late, AtQuestion, Beginning
    <2>2. e = [cv EXCEPT !.kind = "text", !.next = EditSelect, !.armed = "select"]
      BY <1>4, NamesDiffer DEF Entered
    <2>3. /\ e \in Conv /\ e.at = EditSelect /\ e.kind = "text" /\ ~e.editing /\ e.answers = cv.answers
          /\ e.next = EditSelect /\ e.armed = "select"
          /\ e.run = cv.run /\ e.submission = cv.submission /\ e.message = cv.message
      <3> HIDE DEF e
      <3> QED
        BY <1>4, <2>1, <2>2, NamesAreStates DEF Conv
    <2>4. Complete(e) /\ Awaited(e) = EditSelect
      <3> HIDE DEF e
      <3> QED
        BY <2>1, <2>3 DEF Complete, Selecting, Awaited
    <2> QED
      BY <1>4, <2>1, <2>3, <2>4, NamesDiffer DEF Placed
  <1>5. CASE cv.at = Reset
    <2>1. ~AtConfirm(cv) /\ ~Late(cv) /\ cv.run = 0
      BY <1>5, NamesDiffer DEF Ready, Early, AtConfirm, Late, AtQuestion, Beginning
    <2> DEFINE b == [cv EXCEPT !.answers = {}, !.editing = FALSE, !.at = Question(1)]
    <2>2. /\ b \in Conv /\ ~b.editing /\ b.at = Question(1) /\ b.run = 0
          /\ b.submission = cv.submission /\ b.message = cv.message
      BY <2>1, NamesAreStates, NumbersFacts DEF Conv
    <2>3. 1 .. 1 - 1 \subseteq b.answers /\ AtQuestion(b)
      <3>1. 1 .. 1 - 1 = {} /\ 1 \in Numbers
        BY NumbersFacts
      <3> QED
        BY <2>2, <3>1 DEF AtQuestion
    <2>4. e = Asking(b, 1)
      BY <1>5, NamesDiffer DEF Entered
    <2>5. e \in Conv /\ Walking(e) /\ Awaited(e) = Question(1)
      BY <2>2, <2>3, <2>4, NumbersFacts, AskingFacts
    <2>6. e.at = Question(1) /\ e.run = cv.run /\ e.submission = cv.submission /\ e.message = cv.message
      <3> HIDE DEF b
      <3> QED
        BY <2>1, <2>2, <2>4 DEF Asking, Conv
    <2> QED
      BY <1>1, <1>5, <2>1, <2>5, <2>6, NamesDiffer DEF Placed
  <1>6. CASE cv.at = Cancelled
    <2>1. ~AtConfirm(cv) /\ ((Walking(cv) /\ ~Late(cv)) \/ (Complete(cv) /\ ~Early(cv)))
      BY <1>1, <1>6, NamesDiffer DEF Ready, Early, AtConfirm, Late, AtQuestion, Beginning
    <2>2. e = cv
      BY <1>6, NamesDiffer DEF Entered
    <2> QED
      BY <1>1, <1>6, <2>1, <2>2, NamesDiffer DEF Placed
  <1>7. CASE \E i \in Numbers : cv.at = Question(i)
    <2>1. PICK i \in Numbers : cv.at = Question(i)
      BY <1>7
    <2>2. cv.at[2] = i /\ cv.at \notin {Intro, Confirm, Reset, EditSelect, Cancelled, Submit}
      BY <2>1, NamesDiffer
    <2>3. e = Asking(cv, i)
      BY <2>2 DEF Entered
    <2>4. e.at = Question(i) /\ e.run = cv.run /\ e.submission = cv.submission /\ e.message = cv.message
      BY <2>1, <2>3 DEF Asking, Conv
    <2>5. e \in Conv /\ Awaited(e) = Question(i)
      BY <2>3, AskingFacts
    <2>6. ASSUME Early(cv) PROVE Walking(e) /\ ~Late(cv)
      <3>1. ~cv.editing /\ cv.run = 0 /\ AtQuestion(cv) /\ 1 .. i - 1 \subseteq cv.answers
        <4>1. CASE Beginning(cv)
          <5>1. i = 1 /\ 1 .. i - 1 = {}
            BY <2>1, <4>1, NamesDiffer DEF Beginning
          <5> QED
            BY <2>1, <4>1, <5>1 DEF AtQuestion, Beginning
        <4>2. CASE ~Beginning(cv)
          BY <2>1, <2>2, <2>6, <4>2, NamesDiffer DEF Early, AtQuestion
        <4> QED
          BY <4>1, <4>2
      <3> QED
        BY <2>2, <2>3, <3>1, AskingFacts DEF Late, Complete
    <2>7. ASSUME Late(cv) PROVE Complete(e)
      BY <2>1, <2>2, <2>3, <2>7, AskingFacts DEF Late
    <2> QED
      BY <1>1, <2>1, <2>2, <2>4, <2>5, <2>6, <2>7 DEF Placed, Ready, AtConfirm
  <1> QED
    <2>1. cv.at \in States
      BY DEF Conv
    <2> QED
      BY <1>2, <1>3, <1>4, <1>5, <1>6, <1>7, <2>1, NamesAreStates

-----------------------------------------------------------------------------
(* A conversation with the messages it has on their way.  The introduction  *)
(* goes first; while it is on its way no reaction is taken, and whoever     *)
(* reached the confirmation by text answers has not left it yet.            *)

ShapeOK(cv, q) ==
  /\ Placed(cv)
  /\ IntroFirst(q)
  /\ cv.kind = "none" => ~Flies(q, "prompt")
  /\ cv.at = Intro => q = <<>>
  /\ cv.run > 0 \/ Flies(q, "invalid") => Complete(cv) /\ ~Flies(q, "intro")
  /\ Flies(q, "intro") => cv.message = Unset /\ (Complete(cv) => cv.kind = "reaction" /\ cv.at = Confirm)

\* The same for a conversation about to enter a state.
TakenOK(cv, q) ==
  /\ Ready(cv)
  /\ IntroFirst(q)
  /\ cv.at = Intro => q = <<>>
  /\ cv.run > 0 \/ Flies(q, "invalid") => (AtConfirm(cv) \/ Late(cv)) /\ ~Flies(q, "intro")
  /\ Flies(q, "intro") => cv.message = Unset /\ ~Late(cv)

\* The last prompt on its way is of what is awaited, and so is the message taken
\* reactions on when none is.
LastPrompt(q, s) ==
  \A i \in 1 .. Len(q) :
    q[i].what = "prompt" /\ (\A j \in i + 1 .. Len(q) : q[j].what # "prompt") => q[i].of = s
PromptOK(cv, q) ==
  /\ LastPrompt(q, Awaited(cv))
  /\ Flies(q, "prompt") \/ cv.message \in {Unset, Awaited(cv)}

LEMMA AppendPrompts ==
  ASSUME NEW q \in Seq(Messages), NEW m \in Messages, NEW s
  PROVE  /\ m.what = "prompt" /\ m.of = s => LastPrompt(Append(q, m), s)
         /\ m.what # "prompt" /\ LastPrompt(q, s) => LastPrompt(Append(q, m), s)
  <1>1. /\ Len(Append(q, m)) = Len(q) + 1 /\ Len(q) \in Nat
        /\ \A i \in 1 .. Len(q) : Append(q, m)[i] = q[i]
        /\ Append(q, m)[Len(q) + 1] = m
    OBVIOUS
  <1>2. ASSUME m.what = "prompt", m.of = s PROVE LastPrompt(Append(q, m), s)
    <2> SUFFICES ASSUME NEW i \in 1 .. Len(q) + 1,
                        \A j \in i + 1 .. Len(q) + 1 : Append(q, m)[j].what # "prompt"
                 PROVE  Append(q, m)[i].of = s
      BY <1>1 DEF LastPrompt
    <2>1. i = Len(q) + 1
      <3> SUFFICES ASSUME i # Len(q) + 1 PROVE FALSE
        OBVIOUS
      <3>1. Len(q) + 1 \in i + 1 .. Len(q) + 1
        BY <1>1
      <3> QED
        BY <1>1, <1>2, <3>1
    <2> QED
      BY <1>1, <1>2, <2>1
  <1>3. ASSUME m.what # "prompt", LastPrompt(q, s) PROVE LastPrompt(Append(q, m), s)
    <2> SUFFICES ASSUME NEW i \in 1 .. Len(q) + 1, Append(q, m)[i].what = "prompt",
                        \A j \in i + 1 .. Len(q) + 1 : Append(q, m)[j].what # "prompt"
                 PROVE  Append(q, m)[i].of = s
      BY <1>1 DEF LastPrompt
    <2>1. i \in 1 .. Len(q) /\ q[i].what = "prompt"
      BY <1>1, <1>3
    <2>2. \A j \in i + 1 .. Len(q) : q[j].what # "prompt"
      BY <1>1, <2>1
    <2> QED
      BY <1>1, <1>3, <2>1, <2>2 DEF LastPrompt
  <1> QED
    BY <1>2, <1>3

LEMMA TailPrompts ==
  ASSUME NEW q \in Seq(Messages), NEW s, q # <<>>, LastPrompt(q, s)
  PROVE  /\ LastPrompt(Tail(q), s)
         /\ Head(q).what = "prompt" => Flies(Tail(q), "prompt") \/ Head(q).of = s
  <1>1. /\ Head(q) = q[1] /\ Len(q) \in Nat \ {0} /\ Len(Tail(q)) = Len(q) - 1
        /\ \A i \in 1 .. Len(q) - 1 : Tail(q)[i] = q[i + 1]
    OBVIOUS
  <1>2. LastPrompt(Tail(q), s)
    <2> SUFFICES ASSUME NEW i \in 1 .. Len(q) - 1, Tail(q)[i].what = "prompt",
                        \A j \in i + 1 .. Len(q) - 1 : Tail(q)[j].what # "prompt"
                 PROVE  Tail(q)[i].of = s
      BY <1>1 DEF LastPrompt
    <2>1. i + 1 \in 1 .. Len(q) /\ q[i + 1] = Tail(q)[i]
      BY <1>1
    <2>2. ASSUME NEW j \in i + 2 .. Len(q) PROVE q[j].what # "prompt"
      <3>1. j - 1 \in i + 1 .. Len(q) - 1 /\ j - 1 \in 1 .. Len(q) - 1 /\ q[j] = Tail(q)[j - 1]
        BY <1>1
      <3> QED
        BY <3>1
    <2>3. \A j \in (i + 1) + 1 .. Len(q) : q[j].what # "prompt"
      BY <2>2
    <2> QED
      BY <2>1, <2>3 DEF LastPrompt
  <1>3. ASSUME Head(q).what = "prompt", ~Flies(Tail(q), "prompt") PROVE Head(q).of = s
    <2>1. ASSUME NEW j \in 1 + 1 .. Len(q) PROVE q[j].what # "prompt"
      <3>1. j - 1 \in 1 .. Len(Tail(q)) /\ q[j] = Tail(q)[j - 1]
        BY <1>1
      <3> QED
        BY <1>3, <3>1 DEF Flies
    <2> QED
      BY <1>1, <1>3, <2>1 DEF LastPrompt
  <1> QED
    BY <1>2, <1>3

-----------------------------------------------------------------------------
(* Entering a state keeps all of this.                                      *)

LEMMA EnterKeeps ==
  ASSUME setup \in Setups, NEW cv \in Conv, NEW q \in Seq(Messages), TakenOK(cv, q), cv.at # Submit
  PROVE  /\ Append(q, Announcement(cv)) \in Seq(Messages)
         /\ ShapeOK(Entered(cv), Append(q, Announcement(cv)))
         /\ PromptOK(cv, q) => PromptOK(Entered(cv), Append(q, Announcement(cv)))
  <1> DEFINE e == Entered(cv)
             m == Announcement(cv)
  <1>1. /\ e \in Conv /\ Placed(e) /\ e.run = cv.run /\ e.message = cv.message /\ e.at # Intro
        /\ cv.at # Intro => e.kind # "none"
        /\ AtConfirm(cv) => Complete(e) /\ e.kind = "reaction" /\ e.at = Confirm
        /\ Late(cv) => Complete(e)
        /\ Early(cv) => ~Complete(e)
        /\ cv.at \notin {Intro, Cancelled} => Awaited(e) = e.at
        /\ cv.at = Intro => Beginning(cv) /\ Beginning(e)
        /\ cv.at = Cancelled => e = cv
    BY EnteredFacts DEF TakenOK
  <1>2. /\ m \in Messages
        /\ cv.at = Intro => m.what = "intro"
        /\ cv.at = Cancelled => m.what = "cancelled"
        /\ cv.at \notin {Intro, Cancelled} => m.what = "prompt" /\ m.of = e.at
    <2>1. e.at \in States
      BY <1>1 DEF Conv
    <2> QED
      BY <2>1, MessageBuilt, NamesDiffer DEF Announcement, Notices
  <1>3. /\ Append(q, m) \in Seq(Messages) /\ Append(q, m) # <<>>
        /\ \A w : Flies(Append(q, m), w) <=> Flies(q, w) \/ m.what = w
        /\ IntroFirst(q) /\ (q = <<>> \/ m.what # "intro") => IntroFirst(Append(q, m))
    BY <1>2, AppendFlies
  <1> HIDE DEF e, m
  <1>4. ShapeOK(e, Append(q, m))
    <2>1. IntroFirst(Append(q, m))
      BY <1>2, <1>3 DEF TakenOK
    <2>2. e.run > 0 \/ Flies(Append(q, m), "invalid") => Complete(e) /\ ~Flies(Append(q, m), "intro")
      <3>1. Flies(Append(q, m), "invalid") => Flies(q, "invalid")
        BY <1>2, <1>3
      <3>2. cv.at = Intro => ~(cv.run > 0) /\ ~AtConfirm(cv) /\ ~Late(cv)
        BY <1>1, NamesDiffer DEF Beginning, AtConfirm, Late
      <3>3. cv.at # Intro => m.what # "intro"
        BY <1>2
      <3> QED
        BY <1>1, <1>3, <3>1, <3>2, <3>3 DEF TakenOK
    <2>3. Flies(Append(q, m), "intro") => e.message = Unset /\ (Complete(e) => e.kind = "reaction" /\ e.at = Confirm)
      <3>1. CASE cv.at = Intro
        BY <1>1, <3>1 DEF Beginning, Complete, Editing, Confirming, Selecting
      <3>2. CASE cv.at # Intro
        BY <1>1, <1>2, <1>3, <3>2 DEF TakenOK, Ready
      <3> QED
        BY <3>1, <3>2
    <2>4. e.kind = "none" => ~Flies(Append(q, m), "prompt")
      BY <1>1, <1>2, <1>3 DEF TakenOK, Flies
    <2> QED
      BY <1>1, <2>1, <2>2, <2>3, <2>4 DEF ShapeOK
  <1>5. ASSUME PromptOK(cv, q) PROVE PromptOK(e, Append(q, m))
    <2>1. CASE cv.at = Intro
      <3>1. q = <<>> /\ e.message = Unset
        BY <1>1, <2>1 DEF TakenOK, Beginning
      <3>2. LastPrompt(q, Awaited(e))
        BY <3>1 DEF LastPrompt
      <3> QED
        BY <1>2, <2>1, <3>1, <3>2, AppendPrompts DEF PromptOK
    <2>2. CASE cv.at = Cancelled
      BY <1>1, <1>2, <1>3, <1>5, <2>2, AppendPrompts DEF PromptOK
    <2>3. CASE cv.at \notin {Intro, Cancelled}
      BY <1>1, <1>2, <1>3, <2>3, AppendPrompts DEF PromptOK
    <2> QED
      BY <2>1, <2>2, <2>3
  <1> QED
    BY <1>3, <1>4, <1>5 DEF e, m

Announced(q) == Append(q, Notice("submitted"))

\* A run of state_submit changes no more of its conversation than what it counts.
Ran(cv, e) == \E r, j : e = [cv EXCEPT !.run = r, !.submission = j]

LEMMA SubmitKeeps ==
  ASSUME setup \in Setups, NEW cv \in Conv, NEW q \in Seq(Messages), TakenOK(cv, q), cv.at = Submit,
         NEW e \in Conv, Ran(cv, e),
         NEW r, r = q \/ r = Announced(q)
  PROVE  cv.answers = Numbers /\ r \in Seq(Messages) /\ ShapeOK(e, r) /\ (PromptOK(cv, q) => PromptOK(e, r))
  <1>1. cv.answers = Numbers /\ Confirming(cv) /\ Late(cv)
    BY NamesDiffer DEF TakenOK, Ready, Early, AtConfirm, Late, AtQuestion, Beginning
  <1>2. /\ e.answers = Numbers /\ e.at = Submit /\ e.message = cv.message
        /\ e.kind = cv.kind /\ e.index = cv.index /\ e.editing = cv.editing /\ e.menu = cv.menu
    BY <1>1 DEF Conv, Ran
  <1>3. Complete(e) /\ Awaited(e) = Awaited(cv)
    BY <1>1, <1>2 DEF Complete, Confirming, Awaited
  <1>4. Notice("submitted") \in Messages /\ Notice("submitted").what = "submitted"
    BY MessageBuilt DEF Notices
  <1>5. /\ r \in Seq(Messages)
        /\ \A w : w # "submitted" => (Flies(r, w) <=> Flies(q, w))
        /\ IntroFirst(q) => IntroFirst(r)
    BY <1>4, AppendFlies DEF Announced
  <1>6. ShapeOK(e, r)
    <2>1. ~Flies(r, "intro")
      BY <1>1, <1>5 DEF TakenOK
    <2>2. e.at # Intro
      BY <1>2, NamesDiffer
    <2>3. e.kind # "none"
      BY <1>3 DEF Complete, Editing, Confirming, Selecting
    <2> QED
      BY <1>3, <1>5, <2>1, <2>2, <2>3 DEF ShapeOK, Placed, TakenOK
  <1>7. ASSUME PromptOK(cv, q) PROVE PromptOK(e, r)
    <2>1. LastPrompt(r, Awaited(e))
      BY <1>3, <1>4, <1>7, AppendPrompts DEF PromptOK, Announced
    <2> QED
      BY <1>2, <1>3, <1>5, <1>7, <2>1 DEF PromptOK
  <1> QED
    BY <1>1, <1>5, <1>6, <1>7

-----------------------------------------------------------------------------
(* Every handler that enters a state is ready for it: resuming a            *)
(* conversation, a reaction, a text answer, the number of a question to     *)
(* edit, and the handler that told the member the number was none.          *)

LEMMA ResumedTaken ==
  ASSUME setup \in Setups, NEW cv \in Conv, NEW q \in Seq(Messages), ShapeOK(cv, q)
  PROVE  TakenOK(cv, q)
  <1>1. CASE Beginning(cv)
    <2>1. ~Complete(cv) /\ Early(cv) /\ ~Late(cv)
      BY <1>1, NamesDiffer DEF Early, Beginning, Complete, Editing, Confirming, Selecting, Late
    <2> QED
      BY <2>1 DEF ShapeOK, TakenOK, Ready
  <1>2. CASE Walking(cv)
    <2>1. ~Complete(cv) /\ Ready(cv) /\ ~Late(cv)
      BY <1>2, NamesDiffer
         DEF Walking, Ready, Early, Late, Complete, Editing, Confirming, Selecting, AtQuestion, AtConfirm
    <2> QED
      BY <2>1 DEF ShapeOK, TakenOK
  <1>3. CASE Complete(cv)
    <2>1. AtConfirm(cv) \/ Late(cv)
      BY <1>3 DEF Complete, Editing, Confirming, Selecting, AtConfirm, Late
    <2>2. cv.kind = "reaction" /\ cv.at = Confirm => ~Late(cv)
      BY NamesDiffer DEF Late
    <2> QED
      BY <1>3, <2>1, <2>2 DEF ShapeOK, TakenOK, Ready
  <1> QED
    BY <1>1, <1>2, <1>3 DEF ShapeOK, Placed

LEMMA ReactedTaken ==
  ASSUME setup \in Setups, NEW cv \in Conv, NEW q \in Seq(Messages), ShapeOK(cv, q),
         cv.message # Unset, cv.kind \in {"reaction", "both"}, NEW s \in cv.menu
  PROVE  LET x == [cv EXCEPT !.at = s, !.message = Unset] IN
         x \in Conv /\ TakenOK(x, q) /\ (PromptOK(cv, q) => PromptOK(x, q))
  <1> DEFINE x == [cv EXCEPT !.at = s, !.message = Unset]
  <1>1. s \in States
    BY DEF Conv
  <1>2. /\ x \in Conv /\ x.at = s /\ x.message = Unset /\ x.kind = cv.kind /\ x.index = cv.index
        /\ x.answers = cv.answers /\ x.editing = cv.editing /\ x.run = cv.run /\ x.menu = cv.menu
        /\ x.next = cv.next /\ x.armed = cv.armed
    BY <1>1 DEF Conv
  <1>3. ~Flies(q, "intro") /\ Placed(cv)
    BY DEF ShapeOK
  <1> HIDE DEF x
  <1>4. x.at # Intro /\ (Early(x) \/ (Complete(cv) /\ (AtConfirm(x) \/ Late(x))))
    <2>1. CASE Beginning(cv)
      BY <2>1 DEF Beginning
    <2>2. CASE Walking(cv)
      <3>1. s = Cancelled \/ s = Reset \/ (cv.index > 1 /\ s = Question(cv.index - 1))
        BY <2>2 DEF Walking, WalkMenu
      <3>2. CASE s = Cancelled
        BY <1>2, <2>2, <3>2, NamesDiffer DEF Walking, Early
      <3>3. CASE s = Reset
        BY <1>2, <2>2, <3>3, NamesDiffer DEF Walking, Early
      <3>4. CASE cv.index > 1 /\ s = Question(cv.index - 1)
        <4>1. cv.index \in Numbers /\ cv.index - 1 \in Numbers
          BY <3>4, NumbersFacts DEF Conv
        <4>2. 1 .. (cv.index - 1) - 1 \subseteq 1 .. cv.index - 1
          BY <4>1, NumbersFacts
        <4>3. 1 .. (cv.index - 1) - 1 \subseteq x.answers
          BY <1>2, <2>2, <4>2 DEF Walking
        <4>4. AtQuestion(x)
          BY <1>2, <3>4, <4>1, <4>3 DEF AtQuestion
        <4> QED
          BY <1>2, <2>2, <3>4, <4>4, NamesDiffer DEF Walking, Early
      <3> QED
        BY <3>1, <3>2, <3>3, <3>4
    <2>3. CASE Complete(cv)
      <3>1. CASE Editing(cv)
        BY <1>2, <2>3, <3>1, NamesDiffer DEF Editing, Complete, AtConfirm, Late
      <3>2. CASE Confirming(cv)
        BY <1>2, <2>3, <3>2, NamesDiffer DEF Confirming, Complete, AtConfirm, Late
      <3>3. CASE Selecting(cv)
        BY <3>3 DEF Selecting
      <3> QED
        BY <2>3, <3>1, <3>2, <3>3 DEF Complete
    <2> QED
      BY <1>3, <2>1, <2>2, <2>3 DEF Placed
  <1>5. Complete(cv) => AtConfirm(x) \/ Late(x)
    <2>1. CASE Editing(cv)
      BY <1>2, <2>1, NamesDiffer DEF Editing, Complete, AtConfirm, Late
    <2>2. CASE Confirming(cv)
      BY <1>2, <2>2, NamesDiffer DEF Confirming, Complete, AtConfirm, Late
    <2>3. CASE Selecting(cv)
      BY <2>3 DEF Selecting
    <2> QED
      BY <2>1, <2>2, <2>3 DEF Complete
  <1>6. TakenOK(x, q)
    BY <1>2, <1>3, <1>4, <1>5 DEF TakenOK, ShapeOK, Ready
  <1>7. PromptOK(cv, q) => PromptOK(x, q)
    BY <1>2 DEF PromptOK, Awaited
  <1> QED
    BY <1>2, <1>6, <1>7 DEF x

LEMMA AnsweredTaken ==
  ASSUME setup \in Setups, NEW cv \in Conv, NEW q \in Seq(Messages), ShapeOK(cv, q),
         cv.kind \in {"text", "both"}, cv.armed \in {"answer", "none"}
  PROVE  LET x == [cv EXCEPT
                    !.answers = IF cv.armed = "answer" THEN @ \cup {cv.index} ELSE @,
                    !.editing = IF cv.armed = "answer" THEN FALSE ELSE @,
                    !.armed = "none", !.at = cv.next, !.message = Unset]
         IN x \in Conv /\ TakenOK(x, q) /\ (PromptOK(cv, q) => PromptOK(x, q))
  <1> DEFINE x == [cv EXCEPT
                    !.answers = IF cv.armed = "answer" THEN @ \cup {cv.index} ELSE @,
                    !.editing = IF cv.armed = "answer" THEN FALSE ELSE @,
                    !.armed = "none", !.at = cv.next, !.message = Unset]
             a == IF cv.armed = "answer" THEN cv.answers \cup {cv.index} ELSE cv.answers
             f == IF cv.armed = "answer" THEN FALSE ELSE cv.editing
  <1>1. a \in SUBSET Numbers /\ f \in BOOLEAN
    BY DEF Conv
  <1>2. x = [cv EXCEPT !.answers = a, !.editing = f, !.armed = "none", !.at = cv.next, !.message = Unset]
    OBVIOUS
  <1>3. Walking(cv) \/ (Complete(cv) /\ Editing(cv))
    BY DEF ShapeOK, Placed, Beginning, Complete, Confirming, Selecting
  <1>4. cv.next \in States
    BY <1>3, NamesAreStates, NumbersFacts DEF Walking, Editing, Conv
  <1>5. /\ x \in Conv /\ x.at = cv.next /\ x.message = Unset /\ x.kind = cv.kind /\ x.index = cv.index
        /\ x.answers = a /\ x.editing = f /\ x.run = cv.run
    <2> HIDE DEF a, f, x
    <2> QED
      BY <1>1, <1>2, <1>4 DEF Conv
  <1>6. ASSUME Walking(cv) PROVE TakenOK(x, q) /\ (PromptOK(cv, q) => PromptOK(x, q))
    <2>1. a = cv.answers \cup {cv.index} /\ ~f /\ cv.index \in Numbers
      BY <1>6 DEF Walking, Conv
    <2> HIDE DEF x, a, f
    <2>2. 1 .. cv.index \subseteq a
      <3>1. 1 .. cv.index = (1 .. cv.index - 1) \cup {cv.index}
        BY <2>1, NumbersFacts
      <3> QED
        BY <1>6, <2>1, <3>1 DEF Walking
    <2>3. CASE cv.index = N
      <3>1. a = Numbers /\ x.at = Confirm
        BY <1>1, <1>5, <1>6, <2>2, <2>3 DEF Walking, Numbers
      <3>2. AtConfirm(x) /\ ~Late(x) /\ x.at # Intro
        BY <1>5, <3>1, NamesDiffer DEF AtConfirm, Late
      <3> QED
        BY <1>5, <3>2 DEF TakenOK, ShapeOK, PromptOK, Awaited, Ready
    <2>4. CASE cv.index # N
      <3>1. x.at = Question(cv.index + 1) /\ cv.index + 1 \in Numbers
        BY <1>5, <1>6, <2>1, <2>4, NumbersFacts DEF Walking
      <3>2. 1 .. (cv.index + 1) - 1 = 1 .. cv.index
        BY <2>1, NumbersFacts
      <3>3. AtQuestion(x)
        BY <1>5, <2>2, <3>1, <3>2 DEF AtQuestion
      <3>4. Early(x) /\ ~Late(x) /\ x.at # Intro
        BY <1>5, <1>6, <2>1, <3>1, <3>3, NamesDiffer DEF Early, Late, Walking, Complete
      <3>5. ~Complete(cv)
        BY <1>6 DEF Walking, Complete, Editing, Confirming, Selecting
      <3> QED
        BY <1>5, <3>4, <3>5 DEF TakenOK, ShapeOK, PromptOK, Awaited, Ready
    <2> QED
      BY <2>3, <2>4
  <1>7. ASSUME Complete(cv), Editing(cv) PROVE TakenOK(x, q) /\ (PromptOK(cv, q) => PromptOK(x, q))
    <2>1. a = Numbers
      BY <1>7 DEF Complete, Conv
    <2> HIDE DEF x, a, f
    <2>2. AtConfirm(x) /\ ~Late(x) /\ x.at # Intro
      BY <1>5, <1>7, <2>1, NamesDiffer DEF AtConfirm, Late, Editing
    <2>3. ~Flies(q, "intro")
      BY <1>7 DEF ShapeOK, Editing
    <2> QED
      BY <1>5, <2>2, <2>3 DEF TakenOK, ShapeOK, PromptOK, Awaited, Ready
  <1> QED
    BY <1>3, <1>5, <1>6, <1>7

LEMMA SelectedTaken ==
  ASSUME setup \in Setups, NEW cv \in Conv, NEW q \in Seq(Messages), ShapeOK(cv, q),
         cv.kind \in {"text", "both"}, cv.armed = "select", NEW i \in Numbers
  PROVE  LET x == [cv EXCEPT !.editing = TRUE, !.at = Question(i), !.armed = "none"] IN
         /\ Complete(cv) /\ ~Flies(q, "intro")
         /\ x \in Conv /\ TakenOK(x, q) /\ (PromptOK(cv, q) => PromptOK(x, q))
  <1> DEFINE x == [cv EXCEPT !.editing = TRUE, !.at = Question(i), !.armed = "none"]
  <1>1. Complete(cv) /\ Selecting(cv) /\ ~Flies(q, "intro")
    BY DEF ShapeOK, Placed, Beginning, Walking, Complete, Editing, Confirming, Selecting
  <1>2. /\ x \in Conv /\ x.at = Question(i) /\ x.message = cv.message /\ x.kind = cv.kind /\ x.index = cv.index
        /\ x.answers = cv.answers /\ x.editing /\ x.run = cv.run
    BY NamesAreStates DEF Conv
  <1> HIDE DEF x
  <1>3. Late(x) /\ x.at # Intro
    BY <1>1, <1>2, NamesDiffer DEF Late, Complete
  <1>4. TakenOK(x, q) /\ (PromptOK(cv, q) => PromptOK(x, q))
    BY <1>1, <1>2, <1>3 DEF TakenOK, ShapeOK, PromptOK, Awaited, Ready
  <1> QED
    BY <1>1, <1>2, <1>4 DEF x

LEMMA InvalidTaken ==
  ASSUME setup \in Setups, NEW cv \in Conv, NEW q \in Seq(Messages), ShapeOK(cv, q),
         q # <<>>, Head(q).what = "invalid"
  PROVE  LET x == [cv EXCEPT !.armed = "none"] IN
         x \in Conv /\ TakenOK(x, Tail(q)) /\ (PromptOK(cv, q) => PromptOK(x, Tail(q)))
  <1> DEFINE x == [cv EXCEPT !.armed = "none"]
  <1>1. /\ Tail(q) \in Seq(Messages)
        /\ \A w : Flies(q, w) <=> Flies(Tail(q), w) \/ Head(q).what = w
        /\ ~Flies(Tail(q), "intro") /\ IntroFirst(Tail(q))
    BY TailFlies DEF ShapeOK
  <1>2. Complete(cv) /\ cv.at # Intro
    BY <1>1 DEF ShapeOK
  <1>3. /\ x \in Conv /\ x.at = cv.at /\ x.message = cv.message /\ x.kind = cv.kind /\ x.index = cv.index
        /\ x.answers = cv.answers /\ x.editing = cv.editing /\ x.run = cv.run /\ x.menu = cv.menu
        /\ x.next = cv.next /\ x.armed = "none"
    BY DEF Conv
  <1> HIDE DEF x
  <1>4. AtConfirm(x) \/ Late(x)
    BY <1>2, <1>3 DEF Complete, Editing, Confirming, Selecting, AtConfirm, Late
  <1>5. TakenOK(x, Tail(q))
    BY <1>1, <1>2, <1>3, <1>4 DEF TakenOK, Ready
  <1>6. ASSUME PromptOK(cv, q) PROVE PromptOK(x, Tail(q))
    <2>1. LastPrompt(Tail(q), Awaited(cv))
      BY <1>6, TailPrompts DEF PromptOK
    <2>2. Awaited(x) = Awaited(cv)
      BY <1>3 DEF Awaited
    <2> QED
      BY <1>1, <1>3, <1>6, <2>1, <2>2 DEF PromptOK
  <1> QED
    BY <1>3, <1>5, <1>6 DEF x

-----------------------------------------------------------------------------
(* The inductive invariant.                                                 *)

ConvOK(c) == ShapeOK(conv[c], sends[c]) /\ (c \in refused \/ PromptOK(conv[c], sends[c]))

\* What is saved answers everything; runs and notices speak of what is saved.
Saved(c) == \E k \in Runs : row[c][k] # NoRow
RowsComplete(c) ==
  /\ \A k \in Runs : row[c][k] # NoRow => row[c][k].answers = Numbers
  /\ \A k \in Runs : task[c][k] # "none" => conv[c].run > 0
  /\ \A k \in Runs : task[c][k] \in {"posting", "persisting"} => conv[c].submission # 0
  /\ conv[c].submission # 0 => row[c][conv[c].submission] # NoRow
RowsOK(c) ==
  /\ RowsComplete(c)
  /\ "submitted" \in told[c] \/ Flies(sends[c], "submitted") => Saved(c)

\* Whoever confirmed was told, or will be unless something befell the conversation.
Pending(c) ==
  Flies(sends[c], "submitted") \/ Flies(sends[c], "failed") \/ \E k \in Runs : task[c][k] # "none"
HeardOK(c) ==
  conv[c].run > 0 => \/ told[c] \cap {"submitted", "failed"} # {} \/ c \in refused
                     \/ form = "gone" \/ click[c] = "lost" \/ Pending(c)

CInv(c) == ConvOK(c) /\ RowsOK(c) /\ HeardOK(c)
Inv == TypeOK /\ \A c \in Convs : CInv(c)

LEMMA ConvCarried ==
  ASSUME setup' = setup, NEW c, NEW e, NEW q, conv'[c] = e, sends'[c] = q, ShapeOK(e, q),
         c \in refused' \/ PromptOK(e, q)
  PROVE  ConvOK(c)'
  <1>1. N' = N /\ Numbers' = Numbers
    BY DEF N, Numbers
  <1>2. Placed(conv[c])'
    <2>1. Placed(e)
      BY DEF ShapeOK
    <2> QED
      BY <1>1, <2>1 DEF Placed, Beginning, Walking, AtQuestion, AtConfirm, Complete, Editing, Confirming, Selecting
  <1>3. Complete(conv[c])' <=> Complete(e)
    BY <1>1 DEF Complete, Editing, Confirming, Selecting
  <1>4. ShapeOK(conv[c], sends[c])'
    BY <1>2, <1>3 DEF ShapeOK, IntroFirst, Flies
  <1>5. (c \in refused \/ PromptOK(conv[c], sends[c]))'
    BY DEF PromptOK, LastPrompt, Flies, Awaited
  <1> QED
    BY <1>4, <1>5 DEF ConvOK
-----------------------------------------------------------------------------
(* A conversation a step leaves alone keeps its part of the invariant, and  *)
(* so does one whose handler enters a state.                                *)

LEMMA Untouched ==
  ASSUME setup' = setup, NEW d \in Convs, CInv(d),
         conv'[d] = conv[d], sends'[d] = sends[d], task'[d] = task[d], row'[d] = row[d], told'[d] = told[d],
         d \in refused => d \in refused', form = "gone" => form' = "gone",
         click[d] = "lost" => click'[d] = "lost"
  PROVE  CInv(d)'
  <1>1. Numbers' = Numbers /\ Runs' = Runs
    BY DEF N, Numbers, Runs
  <1>2. ConvOK(d)'
    BY ConvCarried DEF CInv, ConvOK
  <1>3. RowsOK(d)'
    BY <1>1 DEF CInv, RowsOK, RowsComplete, Saved, Flies
  <1>4. HeardOK(d)'
    BY <1>1 DEF CInv, HeardOK, Pending, Flies
  <1> QED
    BY <1>2, <1>3, <1>4 DEF CInv

\* What a handler that took up conversation c leaves of its own variables.
Touches(c) ==
  /\ \A d \in Convs \ {c} : conv'[d] = conv[d] /\ sends'[d] = sends[d] /\ task'[d] = task[d] /\ row'[d] = row[d]
  /\ conv' \in [Convs -> Conv] /\ sends' \in [Convs -> Seq(Messages)]
  /\ task' \in [Convs -> [Runs -> {"none", "fetching", "posting", "persisting"}]]
  /\ row' \in [Convs -> [Runs -> Row]]

SaveDone(c, k, cv) ==
  /\ conv' \in [Convs -> Conv] /\ row' \in [Convs -> [Runs -> Row]]
  /\ \A d \in Convs \ {c} : conv'[d] = conv[d] /\ row'[d] = row[d]
  /\ \A j \in Runs \ {k} : row'[c][j] = row[c][j]
  /\ row'[c][k] # NoRow /\ row'[c][k].answers = cv.answers
  /\ Ran(cv, conv'[c])
  /\ conv'[c].submission = k /\ conv'[c].run \in Nat \ {0} /\ conv'[c] \in Conv

LEMMA SaveFacts ==
  ASSUME TypeOK, NEW c \in Convs, NEW k \in Runs, NEW cv \in Conv, Save(c, k, cv)
  PROVE  SaveDone(c, k, cv)
  <1> DEFINE r == IF cv.run < k THEN k ELSE cv.run
             w == [state |-> "unposted", answers |-> cv.answers]
             e == [cv EXCEPT !.submission = k, !.run = r]
  <1>1. k \in Nat \ {0} /\ cv.run \in {0} \cup Runs /\ r \in Runs /\ r \in Nat \ {0}
    BY NumbersFacts DEF TypeOK, Conv
  <1>2. w \in Row /\ w # NoRow /\ w.answers = cv.answers
    BY DEF Row, NoRow, Conv
  <1>3. e \in Conv /\ e.run = r /\ e.submission = k /\ e = [cv EXCEPT !.run = r, !.submission = k]
    <2> HIDE DEF r
    <2> QED
      BY <1>1 DEF Conv
  <1>4. Ran(cv, e)
    <2> HIDE DEF r, e
    <2> QED
      BY <1>3 DEF Ran
  <1>5. row' = [row EXCEPT ![c] = [row[c] EXCEPT ![k] = w]] /\ conv' = [conv EXCEPT ![c] = e]
    BY DEF Save
  <1> HIDE DEF r, w, e
  <1>6. conv'[c] = e /\ conv' \in [Convs -> Conv] /\ \A d \in Convs \ {c} : conv'[d] = conv[d]
    BY <1>3, <1>5 DEF TypeOK
  <1>7. /\ row' \in [Convs -> [Runs -> Row]] /\ \A d \in Convs \ {c} : row'[d] = row[d]
        /\ row'[c][k] = w /\ \A j \in Runs \ {k} : row'[c][j] = row[c][j]
    BY <1>2, <1>5 DEF TypeOK
  <1> QED
    BY <1>1, <1>2, <1>3, <1>4, <1>6, <1>7 DEF SaveDone

\* What a run of state_submit counts before its first await: it waits for the channel,
\* or ends as the form is gone, or has saved the submission.
Waits(c, k, cv) ==
  /\ form = "ready" /\ row' = row
  /\ conv' = [conv EXCEPT ![c] = [cv EXCEPT !.run = k]]
  /\ task' = [task EXCEPT ![c] = [task[c] EXCEPT ![k] = "fetching"]]
Ends(c, k, cv) ==
  /\ form = "gone" /\ row' = row /\ task' = task
  /\ conv' = [conv EXCEPT ![c] = [cv EXCEPT !.run = k]]
Saves(c, k, cv) == Save(c, k, cv) /\ task' = task

LEMMA CountsFacts ==
  ASSUME TypeOK, setup' = setup, NEW c \in Convs, RowsComplete(c), NEW k \in Runs, NEW cv \in Conv,
         cv.answers = Numbers, cv.submission = conv[c].submission,
         Waits(c, k, cv) \/ Ends(c, k, cv) \/ Saves(c, k, cv)
  PROVE  /\ conv' \in [Convs -> Conv] /\ row' \in [Convs -> [Runs -> Row]]
         /\ task' \in [Convs -> [Runs -> {"none", "fetching", "posting", "persisting"}]]
         /\ \A d \in Convs \ {c} : conv'[d] = conv[d] /\ row'[d] = row[d] /\ task'[d] = task[d]
         /\ Ran(cv, conv'[c]) /\ RowsComplete(c)'
         /\ Saved(c) \/ Saves(c, k, cv) => Saved(c)'
         /\ Waits(c, k, cv) => task'[c][k] # "none"
  <1>1. Numbers' = Numbers /\ Runs' = Runs
    BY DEF N, Numbers, Runs
  <1>2. /\ k \in Nat \ {0} /\ conv \in [Convs -> Conv] /\ row \in [Convs -> [Runs -> Row]]
        /\ task \in [Convs -> [Runs -> {"none", "fetching", "posting", "persisting"}]]
    BY NumbersFacts DEF TypeOK
  <1>3. CASE Saves(c, k, cv)
    <2>1. SaveDone(c, k, cv)
      BY <1>3, SaveFacts DEF Saves
    <2>2. Saved(c)'
      BY <1>1, <2>1 DEF SaveDone, Saved
    <2>3. RowsComplete(c)'
      <3>1. \A j \in Runs : row'[c][j] # NoRow => row'[c][j].answers = Numbers
        BY <2>1 DEF SaveDone, RowsComplete
      <3>2. /\ conv'[c].submission = k /\ k # 0 /\ row'[c][conv'[c].submission] # NoRow
            /\ conv'[c].run > 0
        BY <1>2, <2>1 DEF SaveDone
      <3> QED
        BY <1>1, <3>1, <3>2 DEF RowsComplete
    <2> QED
      <3>1. task' = task
        BY <1>3 DEF Saves
      <3>2. Waits(c, k, cv) => task'[c][k] # "none"
        BY <1>2 DEF Waits
      <3> QED
        BY <1>2, <2>1, <2>2, <2>3, <3>1, <3>2 DEF SaveDone
  <1>4. CASE Waits(c, k, cv) \/ Ends(c, k, cv)
    <2> DEFINE e == [cv EXCEPT !.run = k]
    <2>1. e \in Conv /\ e.run = k /\ e.submission = cv.submission /\ e = [cv EXCEPT !.run = k, !.submission = cv.submission]
      BY DEF Conv
    <2>2. Ran(cv, e)
      <3> HIDE DEF e
      <3> QED
        BY <2>1 DEF Ran
    <2> HIDE DEF e
    <2>3. conv' = [conv EXCEPT ![c] = e]
      BY <1>4 DEF e, Waits, Ends
    <2>4. /\ conv'[c] = e /\ conv' \in [Convs -> Conv] /\ \A d \in Convs \ {c} : conv'[d] = conv[d]
      BY <1>2, <2>1, <2>3
    <2>5. /\ task' \in [Convs -> [Runs -> {"none", "fetching", "posting", "persisting"}]]
          /\ \A d \in Convs \ {c} : task'[d] = task[d]
          /\ \A j \in Runs : task'[c][j] \in {"posting", "persisting"} => task'[c][j] = task[c][j]
          /\ Waits(c, k, cv) => task'[c][k] = "fetching"
      <3>1. /\ \/ task' = [task EXCEPT ![c] = [task[c] EXCEPT ![k] = "fetching"]]
               \/ task' = task
            /\ Waits(c, k, cv) => task' = [task EXCEPT ![c] = [task[c] EXCEPT ![k] = "fetching"]]
        BY <1>4 DEF Waits, Ends
      <3> QED
        BY <1>2, <3>1
    <2>6. row' = row
      BY <1>4 DEF Waits, Ends
    <2>7. RowsComplete(c)'
      BY <1>1, <1>2, <2>1, <2>4, <2>5, <2>6 DEF RowsComplete
    <2>8. Saved(c) \/ Saves(c, k, cv) => Saved(c)'
      <3>1. Saves(c, k, cv) => Saved(c)'
        BY <1>1, SaveFacts DEF Saved, SaveDone, Saves
      <3> QED
        BY <1>1, <2>6, <3>1 DEF Saved
    <2> QED
      BY <1>2, <2>2, <2>4, <2>5, <2>6, <2>7, <2>8
  <1> QED
    BY <1>3, <1>4

LEMMA Entering ==
  ASSUME TypeOK, NEW c \in Convs, CInv(c), NEW cv \in Conv, NEW q \in Seq(Messages),
         TakenOK(cv, q), PromptOK(conv[c], sends[c]) => PromptOK(cv, q),
         cv.run = conv[c].run, cv.submission = conv[c].submission,
         \A w \in {"submitted", "failed"} : Flies(q, w) <=> Flies(sends[c], w),
         Repost(c, cv, q), UNCHANGED <<world, history>>,
         click[c] = "lost" => click'[c] = "lost"
  PROVE  Touches(c) /\ CInv(c)'
  <1>1. Numbers' = Numbers /\ Runs' = Runs /\ setup' = setup /\ form' = form /\ told' = told /\ refused' = refused
    BY DEF N, Numbers, Runs, world, history
  <1>2. /\ setup \in Setups /\ conv \in [Convs -> Conv] /\ sends \in [Convs -> Seq(Messages)]
        /\ task \in [Convs -> [Runs -> {"none", "fetching", "posting", "persisting"}]]
        /\ row \in [Convs -> [Runs -> Row]]
    BY DEF TypeOK
  <1>3. CASE cv.at # Submit
    <2> DEFINE e == Entered(cv)
               m == Announcement(cv)
    <2>1. /\ conv' = [conv EXCEPT ![c] = e] /\ sends' = [sends EXCEPT ![c] = Append(q, m)]
          /\ task' = task /\ row' = row
      BY <1>3 DEF Repost, submission
    <2>2. /\ Append(q, m) \in Seq(Messages) /\ ShapeOK(e, Append(q, m))
          /\ PromptOK(cv, q) => PromptOK(e, Append(q, m))
      BY <1>2, <1>3, EnterKeeps
    <2>3. e \in Conv /\ e.run = cv.run /\ e.submission = cv.submission
      BY <1>2, <1>3, EnteredFacts DEF TakenOK
    <2>4. \A w \in {"submitted", "failed"} : Flies(Append(q, m), w) <=> Flies(sends[c], w)
      <3>1. m \in Messages /\ m.what \notin {"submitted", "failed"}
        <4>1. e.at \in States
          BY <2>3 DEF Conv
        <4> QED
          BY <4>1, MessageBuilt DEF Announcement, Notices
      <3> QED
        BY <3>1, AppendFlies
    <2> HIDE DEF e, m
    <2>5. conv'[c] = e /\ sends'[c] = Append(q, m)
      BY <1>2, <2>1
    <2>6. Touches(c)
      BY <1>2, <2>1, <2>2, <2>3 DEF Touches
    <2>7. ConvOK(c)'
      <3>1. c \in refused' \/ PromptOK(e, Append(q, m))
        BY <1>1, <2>2 DEF CInv, ConvOK
      <3> QED
        BY <1>1, <2>2, <2>5, <3>1, ConvCarried
    <2>8. RowsOK(c)'
      <3>1. Flies(sends[c], "submitted")' => Flies(sends[c], "submitted")
        BY <2>4, <2>5 DEF Flies
      <3> QED
        BY <1>1, <2>1, <2>3, <2>5, <3>1 DEF CInv, RowsOK, RowsComplete, Saved
    <2>9. HeardOK(c)'
      <3>1. Pending(c) => Pending(c)'
        BY <1>1, <2>1, <2>4, <2>5 DEF Pending, Flies
      <3> QED
        BY <1>1, <2>3, <2>5, <3>1 DEF CInv, HeardOK
    <2> QED
      BY <2>6, <2>7, <2>8, <2>9 DEF CInv
  <1>4. CASE cv.at = Submit
    <2> DEFINE n == Announced(q)
    <2>1. PICK k \in Runs :
            \/ (Waits(c, k, cv) \/ Ends(c, k, cv)) /\ sends' = [sends EXCEPT ![c] = q]
            \/ Saves(c, k, cv) /\ sends' = [sends EXCEPT ![c] = n]
      BY <1>4 DEF Repost, EnterSubmit, Run, Announced, Waits, Ends, Saves
    <2>2. cv.answers = Numbers
      BY <1>4, NamesDiffer DEF TakenOK, Ready, Early, AtConfirm, Late, AtQuestion, Beginning
    <2>3. /\ Notice("submitted") \in Messages /\ Notice("submitted").what = "submitted"
          /\ n \in Seq(Messages) /\ Flies(n, "submitted")
      BY MessageBuilt, AppendFlies DEF Notices, Announced
    <2> HIDE DEF n
    <2>4. /\ conv' \in [Convs -> Conv] /\ row' \in [Convs -> [Runs -> Row]]
          /\ task' \in [Convs -> [Runs -> {"none", "fetching", "posting", "persisting"}]]
          /\ \A d \in Convs \ {c} : conv'[d] = conv[d] /\ row'[d] = row[d] /\ task'[d] = task[d]
          /\ Ran(cv, conv'[c]) /\ RowsComplete(c)'
          /\ Saved(c) \/ Saves(c, k, cv) => Saved(c)'
          /\ Waits(c, k, cv) => task'[c][k] # "none"
      BY <1>1, <2>1, <2>2, CountsFacts DEF CInv, RowsOK
    <2>5. /\ sends' \in [Convs -> Seq(Messages)] /\ sends'[c] \in {q, n}
          /\ \A d \in Convs \ {c} : sends'[d] = sends[d]
          /\ ((Waits(c, k, cv) \/ Ends(c, k, cv)) /\ sends'[c] = q) \/ (Saves(c, k, cv) /\ sends'[c] = n)
      BY <1>2, <2>1, <2>3
    <2>6. Touches(c)
      BY <2>4, <2>5 DEF Touches
    <2>7. ConvOK(c)'
      <3> DEFINE e == conv'[c]
                 r == sends'[c]
      <3>1. e \in Conv /\ Ran(cv, e) /\ (r = q \/ r = Announced(q))
        BY <2>4, <2>5 DEF n
      <3> HIDE DEF e, r
      <3>2. ShapeOK(e, r) /\ (PromptOK(cv, q) => PromptOK(e, r))
        BY <1>2, <1>4, <3>1, SubmitKeeps
      <3>3. c \in refused' \/ PromptOK(e, r)
        BY <1>1, <3>2 DEF CInv, ConvOK
      <3> QED
        BY <1>1, <3>2, <3>3, ConvCarried DEF e, r
    <2>8. RowsOK(c)'
      <3>1. Flies(sends[c], "submitted")' => Flies(sends[c], "submitted") \/ Saves(c, k, cv)
        BY <2>5 DEF Flies
      <3> QED
        BY <1>1, <2>4, <3>1 DEF CInv, RowsOK
    <2>9. HeardOK(c)'
      <3>1. CASE Waits(c, k, cv)
        BY <1>1, <2>4, <3>1 DEF HeardOK, Pending
      <3>2. CASE Ends(c, k, cv)
        BY <1>1, <3>2 DEF HeardOK, Ends
      <3>3. CASE sends'[c] = n
        BY <2>3, <3>3 DEF HeardOK, Pending, Flies
      <3> QED
        BY <2>5, <3>1, <3>2, <3>3
    <2> QED
      BY <2>6, <2>7, <2>8, <2>9 DEF CInv
  <1> QED
    BY <1>3, <1>4
-----------------------------------------------------------------------------
(* One lemma per kind of step.                                              *)

\* A step that touches one conversation, when that one keeps its part.
LEMMA OneTouched ==
  ASSUME Inv, NEW c \in Convs, Touches(c), CInv(c)', setup' = setup,
         form = "gone" => form' = "gone", refused \subseteq refused',
         \A d \in Convs \ {c} : told'[d] = told[d],
         \A d \in Convs : click[d] = "lost" => click'[d] = "lost"
  PROVE  \A d \in Convs : CInv(d)'
  <1>1. ASSUME NEW d \in Convs \ {c} PROVE CInv(d)'
    BY Untouched DEF Inv, Touches
  <1> QED
    BY <1>1

LEMMA InitInv == Init => Inv
  <1> SUFFICES ASSUME Init PROVE Inv
    OBVIOUS
  <1>1. setup \in Setups /\ conv = [c \in Convs |-> Fresh] /\ sends = [c \in Convs |-> <<>>]
        /\ task = [c \in Convs |-> [k \in Runs |-> "none"]] /\ row = [c \in Convs |-> [k \in Runs |-> NoRow]]
        /\ told = [c \in Convs |-> {}] /\ refused = {} /\ click = [c \in Convs |-> "idle"]
        /\ form = "ready" /\ reachable = TRUE /\ manager = Nobody /\ offer = NoOffer
    BY DEF Init
  <1>2. Fresh \in Conv /\ Beginning(Fresh) /\ Fresh.at = Intro /\ Fresh.run = 0 /\ Fresh.submission = 0 /\ Fresh.message = Unset
    BY <1>1, NumbersFacts, NamesAreStates, NamesDiffer DEF Fresh, Conv, Beginning
  <1>3. NoRow \in Row
    BY DEF Row
  <1>4. TypeOK
    <2> HIDE DEF Fresh, NoRow
    <2>1. sends \in [Convs -> Seq(Messages)]
      BY <1>1
    <2>2. conv \in [Convs -> Conv] /\ row \in [Convs -> [Runs -> Row]]
      BY <1>1, <1>2, <1>3
    <2>3. task \in [Convs -> [Runs -> {"none", "fetching", "posting", "persisting"}]]
          /\ told \in [Convs -> SUBSET {"submitted", "failed", "cancelled"}]
          /\ click \in [Convs -> {"idle", "checked", "begun", "refused", "lost"}]
      BY <1>1
    <2> QED
      BY <1>1, <2>1, <2>2, <2>3 DEF TypeOK
  <1>5. \A w : ~Flies(<<>>, w)
    BY DEF Flies
  <1>6. ASSUME NEW c \in Convs PROVE CInv(c)
    <2>1. conv[c] = Fresh /\ sends[c] = <<>> /\ \A k \in Runs : task[c][k] = "none" /\ row[c][k] = NoRow
      BY <1>1
    <2>2. ShapeOK(Fresh, <<>>) /\ PromptOK(Fresh, <<>>)
      BY <1>2, <1>5 DEF ShapeOK, PromptOK, Placed, IntroFirst, LastPrompt
    <2>3. RowsOK(c) /\ HeardOK(c)
      BY <1>1, <1>2, <1>5, <2>1 DEF RowsOK, RowsComplete, HeardOK
    <2> QED
      BY <2>1, <2>2, <2>3 DEF CInv, ConvOK
  <1> QED
    BY <1>4, <1>6 DEF Inv

\* A handler of the manager's conversation that enters a state.
Handles(c, cv) ==
  /\ cv \in Conv /\ cv.run = conv[c].run /\ cv.submission = conv[c].submission
  /\ TakenOK(cv, sends[c])
  /\ PromptOK(conv[c], sends[c]) => PromptOK(cv, sends[c])

Afterwards(c) == Touches(c) /\ \A d \in Convs : CInv(d)'

Clicks == {"idle", "checked", "begun", "refused", "lost"}
Offers == {NoOffer} \cup [prev : Convs, next : Convs, shown : BOOLEAN]
Tasks == {"none", "fetching", "posting", "persisting"}
Outcomes == {"submitted", "failed", "cancelled"}

\* The variables of the surroundings keep to their values.
OthersTyped ==
  /\ setup' = setup /\ form' \in {"ready", "unset", "gone"} /\ reachable' \in BOOLEAN
  /\ click' \in [Convs -> Clicks] /\ manager' \in Convs \cup {Nobody} /\ offer' \in Offers
  /\ told' \in [Convs -> SUBSET Outcomes] /\ refused' \subseteq Convs

LEMMA TypesCarried ==
  ASSUME Inv, OthersTyped, conv' \in [Convs -> Conv], sends' \in [Convs -> Seq(Messages)],
         task' \in [Convs -> [Runs -> Tasks]], row' \in [Convs -> [Runs -> Row]]
  PROVE  TypeOK'
  <1>1. setup' = setup /\ N' = N /\ Numbers' = Numbers /\ Runs' = Runs
    BY DEF OthersTyped, N, Numbers, Runs
  <1>2. States' = States
    BY <1>1 DEF States
  <1>3. Conv' = Conv
    BY <1>1, <1>2 DEF Conv
  <1>4. Messages' = Messages
    BY <1>2 DEF Messages
  <1>5. Row' = Row
    BY <1>1 DEF Row
  <1>6. setup' \in Setups
    BY <1>1 DEF Inv, TypeOK
  <1> QED
    BY <1>1, <1>3, <1>4, <1>5, <1>6 DEF TypeOK, OthersTyped, Clicks, Offers, Tasks, Outcomes

LEMMA AfterwardsInv ==
  ASSUME Inv, NEW c \in Convs, Afterwards(c), OthersTyped
  PROVE  Inv'
  <1>1. TypeOK'
    BY TypesCarried DEF Afterwards, Touches, Tasks
  <1> QED
    BY <1>1 DEF Inv, Afterwards

LEMMA AsideInv ==
  ASSUME Inv, OthersTyped, UNCHANGED <<conv, sends, submission, history>>,
         form = "gone" => form' = "gone", \A d \in Convs : click[d] = "lost" => click'[d] = "lost"
  PROVE  Inv'
  <1>1. conv' = conv /\ sends' = sends /\ task' = task /\ row' = row /\ told' = told /\ refused' = refused
    BY DEF submission, history
  <1>2. TypeOK'
    BY <1>1, TypesCarried DEF Inv, TypeOK, Tasks
  <1>3. \A d \in Convs : CInv(d)'
    BY <1>1, Untouched DEF Inv, OthersTyped
  <1> QED
    BY <1>2, <1>3 DEF Inv

LEMMA EnterStep ==
  ASSUME Inv, NEW c \in Convs, NEW cv, Handles(c, cv), Enter(c, cv), UNCHANGED <<world, history>>,
         \A d \in Convs : click[d] = "lost" => click'[d] = "lost"
  PROVE  Afterwards(c)
  <1>1. TypeOK /\ CInv(c) /\ sends[c] \in Seq(Messages)
    BY DEF Inv, TypeOK
  <1>2. Repost(c, cv, sends[c])
    BY DEF Enter
  <1>3. cv \in Conv
    BY DEF Handles
  <1>4. Touches(c) /\ CInv(c)'
    BY <1>1, <1>2, <1>3, Entering DEF Handles
  <1> QED
    BY <1>4, OneTouched DEF Afterwards, world, history

LEMMA BeginStep ==
  ASSUME Inv, NEW c \in Convs, Begin(c) \/ Choose(c)
  PROVE  Inv'
  <1>1. Handles(c, conv[c])
    BY ResumedTaken DEF Inv, TypeOK, CInv, ConvOK, Handles
  <1>2. UNCHANGED <<world, history>>
    BY DEF Begin, Choose
  <1>3. /\ click \in [Convs -> Clicks] /\ manager \in Convs \cup {Nobody} /\ offer \in Offers
        /\ form \in {"ready", "unset", "gone"} /\ reachable \in BOOLEAN
        /\ told \in [Convs -> SUBSET Outcomes] /\ refused \subseteq Convs
    BY DEF Inv, TypeOK, Clicks, Offers, Outcomes
  <1>4. (\A d \in Convs : click[d] = "lost" => click'[d] = "lost") /\ click' \in [Convs -> Clicks]
    <2>1. click' = click \/ (click[c] = "checked" /\ click' = [click EXCEPT ![c] = "begun"])
      BY DEF Begin, Choose
    <2> QED
      BY <1>3, <2>1 DEF Clicks
  <1>5. OthersTyped
    <2>1. manager' \in Convs \cup {Nobody} /\ offer' \in Offers
      <3>1. /\ manager' \in {manager, c}
            /\ \/ offer' = offer \/ offer' = NoOffer
               \/ manager # Nobody /\ offer' = [prev |-> manager, next |-> c, shown |-> FALSE]
        BY DEF Begin, Choose
      <3>2. manager # Nobody => [prev |-> manager, next |-> c, shown |-> FALSE] \in Offers
        BY <1>3 DEF Offers
      <3>3. NoOffer \in Offers
        BY DEF Offers
      <3> HIDE DEF NoOffer
      <3> QED
        BY <1>3, <3>1, <3>2, <3>3
    <2> QED
      BY <1>2, <1>3, <1>4, <2>1 DEF OthersTyped, world, history
  <1>6. CASE Enter(c, conv[c])
    BY <1>1, <1>2, <1>4, <1>5, <1>6, EnterStep, AfterwardsInv
  <1>7. CASE UNCHANGED <<conv, sends, submission>>
    BY <1>2, <1>4, <1>5, <1>7, AsideInv DEF world, history
  <1> QED
    BY <1>6, <1>7 DEF Begin, Choose

\* What the handlers of events leave alone: all but the conversation they are for.
Aside == UNCHANGED <<world, click, manager, offer>>

LEMMA AsideTyped ==
  ASSUME Inv, Aside, told' \in [Convs -> SUBSET Outcomes], refused' \subseteq Convs
  PROVE  OthersTyped
  BY DEF Inv, TypeOK, Aside, OthersTyped, world, Clicks, Offers

LEMMA HandledInv ==
  ASSUME Inv, NEW c \in Convs, NEW cv, Handles(c, cv), Enter(c, cv), Aside, UNCHANGED history
  PROVE  Inv'
  <1>1. OthersTyped
    BY AsideTyped DEF Inv, TypeOK, history, Outcomes
  <1>2. Afterwards(c)
    BY EnterStep DEF Aside, history, world
  <1> QED
    BY <1>1, <1>2, AfterwardsInv

LEMMA MemberStep ==
  ASSUME Inv, NEW c \in Convs,
         \/ \E s \in States : React(c, s)
         \/ AnswerQuestion(c)
         \/ \E i \in Numbers : SelectQuestion(c, i)
  PROVE  Inv'
  <1> DEFINE cv == conv[c]
  <1>1. /\ setup \in Setups /\ cv \in Conv /\ sends[c] \in Seq(Messages) /\ ShapeOK(cv, sends[c])
    BY DEF Inv, TypeOK, CInv, ConvOK
  <1>2. ASSUME NEW s \in States, React(c, s) PROVE Inv'
    <2> DEFINE x == [cv EXCEPT !.at = s, !.message = Unset]
    <2>1. cv.message # Unset /\ cv.kind \in {"reaction", "both"} /\ s \in cv.menu /\ Enter(c, x)
          /\ Aside /\ UNCHANGED history
      BY <1>2 DEF React, Aside
    <2>2. x \in Conv /\ TakenOK(x, sends[c]) /\ (PromptOK(cv, sends[c]) => PromptOK(x, sends[c]))
      BY <1>1, <2>1, ReactedTaken
    <2>3. x.run = cv.run /\ x.submission = cv.submission
      BY <1>1 DEF Conv
    <2> HIDE DEF x
    <2> QED
      BY <2>1, <2>2, <2>3, HandledInv DEF Handles
  <1>3. ASSUME AnswerQuestion(c) PROVE Inv'
    <2> DEFINE x == [cv EXCEPT
                       !.answers = IF cv.armed = "answer" THEN @ \cup {cv.index} ELSE @,
                       !.editing = IF cv.armed = "answer" THEN FALSE ELSE @,
                       !.armed = "none", !.at = cv.next, !.message = Unset]
    <2>1. cv.kind \in {"text", "both"} /\ cv.armed \in {"answer", "none"} /\ Enter(c, x)
          /\ Aside /\ UNCHANGED history
      BY <1>3 DEF AnswerQuestion, Aside
    <2>2. x \in Conv /\ TakenOK(x, sends[c]) /\ (PromptOK(cv, sends[c]) => PromptOK(x, sends[c]))
      BY <1>1, <2>1, AnsweredTaken
    <2>3. x.run = cv.run /\ x.submission = cv.submission
      BY <1>1 DEF Conv
    <2> HIDE DEF x
    <2> QED
      BY <2>1, <2>2, <2>3, HandledInv DEF Handles
  <1>4. ASSUME NEW i \in Numbers, SelectQuestion(c, i) PROVE Inv'
    <2> DEFINE x == [cv EXCEPT !.editing = TRUE, !.at = Question(i), !.armed = "none"]
    <2>1. cv.kind \in {"text", "both"} /\ cv.armed = "select" /\ Enter(c, x)
          /\ Aside /\ UNCHANGED history
      BY <1>4 DEF SelectQuestion, Aside
    <2>2. x \in Conv /\ TakenOK(x, sends[c]) /\ (PromptOK(cv, sends[c]) => PromptOK(x, sends[c]))
      BY <1>1, <2>1, SelectedTaken
    <2>3. x.run = cv.run /\ x.submission = cv.submission
      BY <1>1 DEF Conv
    <2> HIDE DEF x
    <2> QED
      BY <2>1, <2>2, <2>3, HandledInv DEF Handles
  <1> QED
    BY <1>2, <1>3, <1>4

(* Notices and deliveries. *)

LEMMA CompleteFacts ==
  ASSUME NEW cv, Complete(cv)
  PROVE  cv.at # Intro /\ cv.kind # "none" /\ Placed(cv)
  BY NamesDiffer DEF Complete, Editing, Confirming, Selecting, Placed

Noticed(q, w) == Append(q, Notice(w))

\* What a notice added to the messages on their way leaves true.
KeptBy(cv, q, w) ==
  /\ Noticed(q, w) \in Seq(Messages)
  /\ ShapeOK(cv, Noticed(q, w))
  /\ PromptOK(cv, q) => PromptOK(cv, Noticed(q, w))
  /\ \A v : Flies(Noticed(q, w), v) <=> Flies(q, v) \/ v = w

LEMMA NoticeKeeps ==
  ASSUME NEW cv, NEW q \in Seq(Messages), ShapeOK(cv, q), Complete(cv), ~Flies(q, "intro"),
         NEW w \in {"invalid", "submitted", "failed"}
  PROVE  KeptBy(cv, q, w)
  <1>1. Notice(w) \in Messages /\ Notice(w).what = w
    BY MessageBuilt DEF Notices
  <1> DEFINE r == Noticed(q, w)
  <1>2. /\ r \in Seq(Messages)
        /\ \A v : Flies(r, v) <=> Flies(q, v) \/ v = w
        /\ IntroFirst(q) => IntroFirst(r)
    BY <1>1, AppendFlies DEF Noticed
  <1>3. LastPrompt(q, Awaited(cv)) => LastPrompt(r, Awaited(cv))
    BY <1>1, AppendPrompts DEF Noticed
  <1> HIDE DEF r
  <1>4. ShapeOK(cv, r)
    BY <1>2, CompleteFacts DEF ShapeOK
  <1>5. PromptOK(cv, q) => PromptOK(cv, r)
    BY <1>2, <1>3 DEF PromptOK
  <1> QED
    BY <1>2, <1>4, <1>5 DEF r, KeptBy

\* A delivery changes no more of a conversation than whether it is active and the
\* message reactions are taken on.
LEMMA DeliveryKeeps ==
  ASSUME NEW cv \in Conv, NEW q \in Seq(Messages), ShapeOK(cv, q), q # <<>>,
         NEW e, e.message = cv.message \/ Head(q).what = "prompt",
         e.at = cv.at, e.kind = cv.kind, e.next = cv.next, e.armed = cv.armed, e.menu = cv.menu,
         e.index = cv.index, e.editing = cv.editing, e.answers = cv.answers, e.run = cv.run
  PROVE  ShapeOK(e, Tail(q)) /\ Awaited(e) = Awaited(cv)
  <1>1. /\ \A w : Flies(q, w) <=> Flies(Tail(q), w) \/ Head(q).what = w
        /\ ~Flies(Tail(q), "intro") /\ IntroFirst(Tail(q))
    BY TailFlies DEF ShapeOK
  <1>2. cv.at # Intro
    BY DEF ShapeOK
  <1>3. Complete(cv) <=> Complete(e)
    BY DEF Complete, Editing, Confirming, Selecting
  <1>4. Walking(cv) => Walking(e)
    BY DEF Walking, AtQuestion, AtConfirm
  <1>5. Beginning(cv) => Beginning(e)
    BY <1>1 DEF Beginning, ShapeOK
  <1>6. ShapeOK(e, Tail(q))
    BY <1>1, <1>2, <1>3, <1>4, <1>5 DEF ShapeOK, Placed
  <1> QED
    BY <1>6 DEF Awaited

LEMMA PoppedSends ==
  ASSUME Inv, NEW c \in Convs, sends[c] # <<>>, sends' = Pop(c)
  PROVE  /\ sends' \in [Convs -> Seq(Messages)] /\ sends'[c] = Tail(sends[c])
         /\ \A d \in Convs \ {c} : sends'[d] = sends[d]
         /\ \A w : Flies(sends[c], w) <=> Flies(sends'[c], w) \/ Head(sends[c]).what = w
  <1>1. sends \in [Convs -> Seq(Messages)]
    BY DEF Inv, TypeOK
  <1>2. Tail(sends[c]) \in Seq(Messages) /\ \A w : Flies(sends[c], w) <=> Flies(Tail(sends[c]), w) \/ Head(sends[c]).what = w
    BY <1>1, TailFlies
  <1> QED
    BY <1>1, <1>2 DEF Pop

LEMMA PromptStep ==
  ASSUME Inv, NEW c \in Convs, PromptDelivered(c)
  PROVE  Inv'
  <1> DEFINE q == sends[c]
             e == [conv[c] EXCEPT !.message = Head(q).of]
  <1>1. /\ setup \in Setups /\ conv \in [Convs -> Conv] /\ conv[c] \in Conv /\ q \in Seq(Messages)
        /\ task \in [Convs -> [Runs -> Tasks]] /\ row \in [Convs -> [Runs -> Row]]
        /\ CInv(c) /\ ShapeOK(conv[c], q)
    BY DEF Inv, TypeOK, CInv, ConvOK, Tasks
  <1>2. /\ q # <<>> /\ Head(q).what = "prompt" /\ sends' = Pop(c) /\ conv' = [conv EXCEPT ![c] = e]
        /\ task' = task /\ row' = row /\ told' = told /\ refused' = refused /\ Aside
    BY DEF PromptDelivered, Aside, submission, history
  <1>3. Head(q) \in Messages /\ Head(q).of \in States
    BY <1>1, <1>2, TailFlies, MessageShape
  <1>4. /\ e \in Conv /\ e.message = Head(q).of /\ e.at = conv[c].at /\ e.kind = conv[c].kind
        /\ e.next = conv[c].next /\ e.armed = conv[c].armed /\ e.menu = conv[c].menu
        /\ e.index = conv[c].index /\ e.editing = conv[c].editing /\ e.answers = conv[c].answers
        /\ e.run = conv[c].run /\ e.submission = conv[c].submission
    BY <1>1, <1>3 DEF Conv
  <1> HIDE DEF e
  <1>5. conv'[c] = e /\ conv' \in [Convs -> Conv] /\ \A d \in Convs \ {c} : conv'[d] = conv[d]
    BY <1>1, <1>2, <1>4
  <1>6. ShapeOK(e, Tail(q)) /\ Awaited(e) = Awaited(conv[c])
    BY <1>1, <1>2, <1>4, DeliveryKeeps
  <1>7. PromptOK(conv[c], q) => PromptOK(e, Tail(q))
    BY <1>1, <1>2, <1>4, <1>6, TailPrompts DEF PromptOK
  <1>8. /\ sends' \in [Convs -> Seq(Messages)] /\ sends'[c] = Tail(q)
        /\ \A d \in Convs \ {c} : sends'[d] = sends[d]
        /\ \A w : Flies(q, w) <=> Flies(sends'[c], w) \/ Head(q).what = w
    BY <1>2, PoppedSends
  <1>9. setup' = setup /\ Numbers' = Numbers /\ Runs' = Runs /\ click' = click /\ form' = form
    BY <1>2 DEF Aside, world, N, Numbers, Runs
  <1>10. ConvOK(c)'
    BY <1>1, <1>2, <1>5, <1>6, <1>7, <1>8, <1>9, ConvCarried DEF CInv, ConvOK
  <1>11. RowsOK(c)' /\ HeardOK(c)'
    <2>1. /\ Flies(sends[c], "submitted")' <=> Flies(q, "submitted")
          /\ Flies(sends[c], "failed")' <=> Flies(q, "failed")
      BY <1>2, <1>8 DEF Flies
    <2>2. RowsOK(c)'
      BY <1>1, <1>2, <1>4, <1>5, <1>9, <2>1 DEF CInv, RowsOK, RowsComplete, Saved
    <2>3. HeardOK(c)'
      BY <1>1, <1>2, <1>4, <1>5, <1>9, <2>1 DEF CInv, HeardOK, Pending
    <2> QED
      BY <2>2, <2>3
  <1>12. Touches(c)
    BY <1>1, <1>2, <1>5, <1>8 DEF Touches, Tasks
  <1>13. Afterwards(c)
    BY <1>2, <1>9, <1>10, <1>11, <1>12, OneTouched DEF CInv, Afterwards
  <1> QED
    BY <1>2, <1>13, AsideTyped, AfterwardsInv DEF Inv, TypeOK, Outcomes

LEMMA ClosesStep ==
  ASSUME Inv, NEW c \in Convs, Closes(c)
  PROVE  Inv'
  <1> DEFINE q == sends[c]
             e == [conv[c] EXCEPT !.active = FALSE]
             w == Head(q).what
  <1>1. /\ setup \in Setups /\ conv \in [Convs -> Conv] /\ conv[c] \in Conv /\ q \in Seq(Messages)
        /\ task \in [Convs -> [Runs -> Tasks]] /\ row \in [Convs -> [Runs -> Row]]
        /\ told \in [Convs -> SUBSET Outcomes] /\ refused \subseteq Convs
        /\ CInv(c) /\ ShapeOK(conv[c], q)
    BY DEF Inv, TypeOK, CInv, ConvOK, Tasks, Outcomes
  <1>2. /\ q # <<>> /\ w \in Outcomes /\ sends' = Pop(c) /\ conv' = [conv EXCEPT ![c] = e]
        /\ task' = task /\ row' = row /\ refused' = refused /\ Aside
        /\ told' = [told EXCEPT ![c] = told[c] \cup {w}]
    BY DEF Closes, Aside, submission, Outcomes
  <1>3. /\ e \in Conv /\ e.message = conv[c].message /\ e.at = conv[c].at /\ e.kind = conv[c].kind
        /\ e.next = conv[c].next /\ e.armed = conv[c].armed /\ e.menu = conv[c].menu
        /\ e.index = conv[c].index /\ e.editing = conv[c].editing /\ e.answers = conv[c].answers
        /\ e.run = conv[c].run /\ e.submission = conv[c].submission
    BY <1>1 DEF Conv
  <1> HIDE DEF e
  <1>4. conv'[c] = e /\ conv' \in [Convs -> Conv] /\ \A d \in Convs \ {c} : conv'[d] = conv[d]
    BY <1>1, <1>2, <1>3
  <1>5. ShapeOK(e, Tail(q)) /\ Awaited(e) = Awaited(conv[c])
    BY <1>1, <1>2, <1>3, DeliveryKeeps
  <1>6. /\ sends' \in [Convs -> Seq(Messages)] /\ sends'[c] = Tail(q)
        /\ \A d \in Convs \ {c} : sends'[d] = sends[d]
        /\ \A v : Flies(q, v) <=> Flies(sends'[c], v) \/ w = v
    BY <1>2, PoppedSends
  <1>7. PromptOK(conv[c], q) => PromptOK(e, Tail(q))
    BY <1>1, <1>2, <1>3, <1>5, <1>6, TailPrompts DEF PromptOK, Outcomes
  <1>8. /\ told'[c] = told[c] \cup {w} /\ told' \in [Convs -> SUBSET Outcomes]
        /\ \A d \in Convs \ {c} : told'[d] = told[d]
    BY <1>1, <1>2
  <1>9. setup' = setup /\ Numbers' = Numbers /\ Runs' = Runs /\ click' = click /\ form' = form
    BY <1>2 DEF Aside, world, N, Numbers, Runs
  <1>10. ConvOK(c)'
    BY <1>1, <1>2, <1>4, <1>5, <1>6, <1>7, <1>9, ConvCarried DEF CInv, ConvOK
  <1> HIDE DEF q, w
  <1>11. RowsOK(c)' /\ HeardOK(c)'
    <2>1. \A v : Flies(q, v) <=> Flies(sends[c], v)' \/ w = v
      BY <1>6 DEF Flies
    <2>2. RowsComplete(c)' /\ (Saved(c) => Saved(c)')
      BY <1>1, <1>2, <1>3, <1>4, <1>9 DEF CInv, RowsOK, RowsComplete, Saved
    <2>3. "submitted" \in told'[c] \/ Flies(sends[c], "submitted")' => "submitted" \in told[c] \/ Flies(q, "submitted")
      BY <1>8, <2>1
    <2>4. RowsOK(c)'
      BY <1>1, <2>2, <2>3 DEF CInv, RowsOK, q
    <2>5. Pending(c) => Pending(c)' \/ told'[c] \cap {"submitted", "failed"} # {}
      BY <1>2, <1>8, <1>9, <2>1 DEF Pending, q
    <2>6. told[c] \subseteq told'[c]
      BY <1>8
    <2>7. HeardOK(c)'
      BY <1>1, <1>2, <1>3, <1>4, <1>9, <2>5, <2>6 DEF CInv, HeardOK
    <2> QED
      BY <2>4, <2>7
  <1>12. Touches(c)
    BY <1>1, <1>2, <1>4, <1>6 DEF Touches, Tasks
  <1>13. Afterwards(c)
    BY <1>2, <1>8, <1>9, <1>10, <1>11, <1>12, OneTouched DEF CInv, Afterwards
  <1> QED
    BY <1>1, <1>2, <1>8, <1>13, AsideTyped, AfterwardsInv

LEMMA RefusalStep ==
  ASSUME Inv, NEW c \in Convs, SendFails(c)
  PROVE  Inv'
  <1> DEFINE q == sends[c]
  <1>1. /\ setup \in Setups /\ conv \in [Convs -> Conv] /\ conv[c] \in Conv /\ q \in Seq(Messages)
        /\ task \in [Convs -> [Runs -> Tasks]] /\ row \in [Convs -> [Runs -> Row]]
        /\ told \in [Convs -> SUBSET Outcomes] /\ refused \subseteq Convs
        /\ CInv(c) /\ ShapeOK(conv[c], q)
    BY DEF Inv, TypeOK, CInv, ConvOK, Tasks, Outcomes
  <1>2. /\ q # <<>> /\ sends' = Pop(c) /\ refused' = refused \cup {c}
        /\ conv' = conv /\ task' = task /\ row' = row /\ told' = told /\ Aside
    BY DEF SendFails, Aside, submission
  <1>3. ShapeOK(conv[c], Tail(q))
    BY <1>1, <1>2, DeliveryKeeps
  <1>4. /\ sends' \in [Convs -> Seq(Messages)] /\ sends'[c] = Tail(q)
        /\ \A d \in Convs \ {c} : sends'[d] = sends[d]
        /\ \A v : Flies(q, v) <=> Flies(sends'[c], v) \/ Head(q).what = v
    BY <1>2, PoppedSends
  <1>5. setup' = setup /\ Numbers' = Numbers /\ Runs' = Runs /\ click' = click /\ form' = form
    BY <1>2 DEF Aside, world, N, Numbers, Runs
  <1>6. ConvOK(c)'
    <2>1. c \in refused'
      BY <1>2
    <2> QED
      BY <1>2, <1>3, <1>4, <1>5, <2>1, ConvCarried
  <1>7. RowsOK(c)' /\ HeardOK(c)'
    <2>1. Flies(sends[c], "submitted")' => Flies(q, "submitted")
      BY <1>4 DEF Flies
    <2>2. RowsOK(c)'
      BY <1>1, <1>2, <1>5, <2>1 DEF CInv, RowsOK, RowsComplete, Saved
    <2> QED
      BY <1>2, <2>2 DEF HeardOK
  <1>8. Touches(c)
    BY <1>1, <1>2, <1>4 DEF Touches, Tasks
  <1>9. Afterwards(c)
    BY <1>2, <1>5, <1>6, <1>7, <1>8, OneTouched DEF CInv, Afterwards
  <1> QED
    BY <1>1, <1>2, <1>9, AsideTyped, AfterwardsInv

\* A handler that tells something and changes nothing else, if not its run of state_submit.
LEMMA NoticeStep ==
  ASSUME Inv, NEW c \in Convs, NEW w \in {"invalid", "submitted", "failed"}, Send(c, Notice(w)),
         Complete(conv[c]), ~Flies(sends[c], "intro"), UNCHANGED <<conv, history>>, Aside,
         task' \in [Convs -> [Runs -> Tasks]], row' \in [Convs -> [Runs -> Row]],
         \A d \in Convs \ {c} : task'[d] = task[d] /\ row'[d] = row[d],
         RowsComplete(c)', Saved(c) => Saved(c)', w = "submitted" => Saved(c)',
         w = "invalid" => task' = task
  PROVE  Inv'
  <1> DEFINE q == sends[c]
             r == Noticed(q, w)
  <1>1. /\ setup \in Setups /\ conv \in [Convs -> Conv] /\ conv[c] \in Conv /\ q \in Seq(Messages)
        /\ sends \in [Convs -> Seq(Messages)]
        /\ told \in [Convs -> SUBSET Outcomes] /\ refused \subseteq Convs
        /\ CInv(c) /\ ShapeOK(conv[c], q)
    BY DEF Inv, TypeOK, CInv, ConvOK, Outcomes
  <1>2. conv' = conv /\ told' = told /\ refused' = refused /\ sends' = [sends EXCEPT ![c] = r]
    BY DEF history, Send, Noticed
  <1>3. /\ r \in Seq(Messages) /\ ShapeOK(conv[c], r) /\ (PromptOK(conv[c], q) => PromptOK(conv[c], r))
        /\ \A v : Flies(r, v) <=> Flies(q, v) \/ v = w
    <2>1. KeptBy(conv[c], q, w)
      BY <1>1, NoticeKeeps
    <2> QED
      BY <2>1 DEF KeptBy
  <1> HIDE DEF r
  <1>4. /\ sends' \in [Convs -> Seq(Messages)] /\ sends'[c] = r
        /\ \A d \in Convs \ {c} : sends'[d] = sends[d]
    BY <1>1, <1>2, <1>3
  <1>5. setup' = setup /\ Numbers' = Numbers /\ Runs' = Runs /\ click' = click /\ form' = form
    BY DEF Aside, world, N, Numbers, Runs
  <1>6. ConvOK(c)'
    BY <1>1, <1>2, <1>3, <1>4, <1>5, ConvCarried DEF CInv, ConvOK
  <1> HIDE DEF q
  <1>7. \A v : Flies(sends[c], v)' <=> Flies(q, v) \/ v = w
    BY <1>3, <1>4 DEF Flies
  <1>8. RowsOK(c)'
    BY <1>1, <1>2, <1>7 DEF CInv, RowsOK, q
  <1>9. HeardOK(c)'
    <2>1. CASE w = "invalid"
      <3>1. Pending(c) => Pending(c)'
        BY <1>5, <1>7, <2>1 DEF Pending, q
      <3> QED
        BY <1>1, <1>2, <1>5, <3>1 DEF CInv, HeardOK
    <2>2. CASE w # "invalid"
      BY <1>7, <2>2 DEF HeardOK, Pending
    <2> QED
      BY <2>1, <2>2
  <1>10. Touches(c)
    BY <1>1, <1>2, <1>4 DEF Touches, Tasks
  <1>11. Afterwards(c)
    BY <1>2, <1>5, <1>6, <1>8, <1>9, <1>10, OneTouched DEF CInv, Afterwards
  <1> QED
    BY <1>1, <1>2, <1>11, AsideTyped, AfterwardsInv

LEMMA SelectInvalidStep ==
  ASSUME Inv, NEW c \in Convs, SelectInvalid(c)
  PROVE  Inv'
  <1>1. /\ setup \in Setups /\ conv[c] \in Conv /\ sends[c] \in Seq(Messages) /\ ShapeOK(conv[c], sends[c])
        /\ 1 \in Numbers /\ CInv(c)
        /\ task \in [Convs -> [Runs -> Tasks]] /\ row \in [Convs -> [Runs -> Row]]
    BY NumbersFacts DEF Inv, TypeOK, CInv, ConvOK, Tasks
  <1>2. /\ conv[c].kind \in {"text", "both"} /\ conv[c].armed = "select" /\ Send(c, Notice("invalid"))
        /\ conv' = conv /\ task' = task /\ row' = row /\ UNCHANGED history /\ Aside
    BY DEF SelectInvalid, Aside, submission
  <1>3. Complete(conv[c]) /\ ~Flies(sends[c], "intro")
    BY <1>1, <1>2, SelectedTaken
  <1>4. Numbers' = Numbers /\ Runs' = Runs
    BY <1>2 DEF Aside, world, N, Numbers, Runs
  <1>5. RowsComplete(c)' /\ (Saved(c) => Saved(c)')
    BY <1>1, <1>2, <1>4 DEF CInv, RowsOK, RowsComplete, Saved
  <1> QED
    BY <1>1, <1>2, <1>3, <1>5, NoticeStep

\* The introduction was delivered: its handler asks the first question.
LEMMA IntroKeeps ==
  ASSUME setup \in Setups, NEW cv \in Conv, NEW q \in Seq(Messages), ShapeOK(cv, q),
         q # <<>>, Head(q).what = "intro"
  PROVE  LET e == Asking(cv, 1)
             r == Append(Tail(q), Prompt(Question(1)))
         IN /\ e \in Conv /\ r \in Seq(Messages) /\ ShapeOK(e, r) /\ PromptOK(e, r)
            /\ e.run = cv.run /\ e.submission = cv.submission
            /\ \A w \in {"submitted", "failed"} : Flies(r, w) <=> Flies(q, w)
  <1> DEFINE e == Asking(cv, 1)
             p == Prompt(Question(1))
             t == Tail(q)
             r == Append(t, p)
  <1>1. /\ t \in Seq(Messages)
        /\ \A w : Flies(q, w) <=> Flies(t, w) \/ Head(q).what = w
        /\ ~Flies(t, "intro") /\ IntroFirst(t)
    BY TailFlies DEF ShapeOK
  <1>2. p \in Messages /\ p.what = "prompt" /\ p.of = Question(1)
    BY MessageBuilt, NamesAreStates, NumbersFacts
  <1>3. /\ r \in Seq(Messages)
        /\ \A w : Flies(r, w) <=> Flies(t, w) \/ p.what = w
        /\ IntroFirst(t) => IntroFirst(r)
        /\ LastPrompt(r, Question(1))
    BY <1>1, <1>2, AppendFlies, AppendPrompts
  <1>4. cv.at # Intro /\ cv.run \in Nat /\ ~(cv.run > 0) /\ ~Flies(q, "invalid")
    BY <1>1, NumbersFacts DEF ShapeOK, Conv
  <1>5. ~cv.editing /\ (cv.at = Cancelled \/ AtQuestion(cv) \/ AtConfirm(cv))
    <2>1. CASE Beginning(cv)
      <3>1. cv.at = Question(1) /\ 1 .. 1 - 1 = {} /\ 1 \in Numbers
        BY <1>4, <2>1, NumbersFacts DEF Beginning
      <3> QED
        BY <2>1, <3>1 DEF Beginning, AtQuestion
    <2>2. CASE Walking(cv)
      BY <2>2 DEF Walking
    <2>3. CASE Complete(cv)
      BY <1>1, <2>3 DEF ShapeOK, Complete, Editing, Confirming, Selecting, AtConfirm
    <2> QED
      BY <2>1, <2>2, <2>3 DEF ShapeOK, Placed
  <1>6. 1 .. 1 - 1 \subseteq cv.answers /\ 1 \in Numbers
    BY NumbersFacts
  <1>7. e \in Conv /\ Awaited(e) = Question(1) /\ Walking(e)
    BY <1>4, <1>5, <1>6, AskingFacts
  <1>8. e.run = cv.run /\ e.submission = cv.submission /\ e.at = cv.at /\ e.message = cv.message
    BY DEF Asking, Conv
  <1> HIDE DEF e, p, t, r
  <1>9. ~Complete(e) /\ e.kind # "none"
    BY <1>7 DEF Walking, Complete, Editing, Confirming, Selecting
  <1>10. ShapeOK(e, r)
    BY <1>1, <1>2, <1>3, <1>4, <1>7, <1>8, <1>9 DEF ShapeOK, Placed
  <1>11. PromptOK(e, r)
    BY <1>2, <1>3, <1>7 DEF PromptOK
  <1>12. \A w \in {"submitted", "failed"} : Flies(r, w) <=> Flies(q, w)
    BY <1>1, <1>2, <1>3
  <1> QED
    BY <1>3, <1>7, <1>8, <1>10, <1>11, <1>12 DEF e, p, t, r

LEMMA ResumeStep ==
  ASSUME Inv, NEW c \in Convs, HandlerResumes(c)
  PROVE  Inv'
  <1> DEFINE q == sends[c]
  <1>1. /\ TypeOK /\ setup \in Setups /\ conv \in [Convs -> Conv] /\ conv[c] \in Conv /\ q \in Seq(Messages)
        /\ sends \in [Convs -> Seq(Messages)]
        /\ task \in [Convs -> [Runs -> Tasks]] /\ row \in [Convs -> [Runs -> Row]]
        /\ told \in [Convs -> SUBSET Outcomes] /\ refused \subseteq Convs
        /\ CInv(c) /\ ShapeOK(conv[c], q)
    BY DEF Inv, TypeOK, CInv, ConvOK, Tasks, Outcomes
  <1>2. q # <<>> /\ Aside /\ told' = told /\ refused' = refused
    BY DEF HandlerResumes, Aside, history
  <1>3. setup' = setup /\ Numbers' = Numbers /\ Runs' = Runs /\ click' = click /\ form' = form
    BY <1>2 DEF Aside, world, N, Numbers, Runs
  <1>4. CASE Head(q).what = "intro"
    <2> DEFINE e == Asking(conv[c], 1)
               r == Append(Tail(q), Prompt(Question(1)))
    <2>1. conv' = [conv EXCEPT ![c] = e] /\ sends' = [sends EXCEPT ![c] = r] /\ task' = task /\ row' = row
      BY <1>4 DEF HandlerResumes, submission
    <2>2. /\ e \in Conv /\ r \in Seq(Messages) /\ ShapeOK(e, r) /\ PromptOK(e, r)
          /\ e.run = conv[c].run /\ e.submission = conv[c].submission
          /\ \A w \in {"submitted", "failed"} : Flies(r, w) <=> Flies(q, w)
      BY <1>1, <1>2, <1>4, IntroKeeps
    <2> HIDE DEF e, r, q
    <2>3. conv'[c] = e /\ sends'[c] = r
      BY <1>1, <2>1
    <2>4. Touches(c)
      BY <1>1, <2>1, <2>2 DEF Touches, Tasks
    <2>5. ConvOK(c)'
      BY <1>3, <2>2, <2>3, ConvCarried
    <2>6. \A w \in {"submitted", "failed"} : Flies(sends[c], w)' <=> Flies(sends[c], w)
      BY <2>2, <2>3 DEF Flies, q
    <2>7. RowsOK(c)'
      BY <1>1, <1>2, <1>3, <2>1, <2>2, <2>3, <2>6 DEF CInv, RowsOK, RowsComplete, Saved
    <2>8. HeardOK(c)'
      BY <1>1, <1>2, <1>3, <2>1, <2>2, <2>3, <2>6 DEF CInv, HeardOK, Pending
    <2>9. Afterwards(c)
      BY <1>2, <1>3, <2>4, <2>5, <2>7, <2>8, OneTouched DEF CInv, Afterwards
    <2> QED
      BY <1>1, <1>2, <2>9, AsideTyped, AfterwardsInv
  <1>5. CASE Head(q).what = "invalid"
    <2> DEFINE x == [conv[c] EXCEPT !.armed = "none"]
    <2>1. Repost(c, x, Tail(q))
      BY <1>5 DEF HandlerResumes
    <2>2. x \in Conv /\ TakenOK(x, Tail(q)) /\ (PromptOK(conv[c], q) => PromptOK(x, Tail(q)))
      BY <1>1, <1>2, <1>5, InvalidTaken
    <2>3. x.run = conv[c].run /\ x.submission = conv[c].submission
      BY <1>1 DEF Conv
    <2>4. Tail(q) \in Seq(Messages) /\ \A w \in {"submitted", "failed"} : Flies(Tail(q), w) <=> Flies(q, w)
      BY <1>1, <1>2, <1>5, TailFlies
    <2>5. UNCHANGED <<world, history>>
      BY <1>2 DEF Aside, history
    <2> HIDE DEF x
    <2>6. Touches(c) /\ CInv(c)'
      BY <1>1, <1>3, <2>1, <2>2, <2>3, <2>4, <2>5, Entering
    <2>7. Afterwards(c)
      BY <1>2, <1>3, <2>6, OneTouched DEF Afterwards
    <2> QED
      BY <1>1, <1>2, <2>7, AsideTyped, AfterwardsInv
  <1> QED
    BY <1>4, <1>5 DEF HandlerResumes

-----------------------------------------------------------------------------
(* The rest of state_submit.                                                *)

\* Whoever ran state_submit has a complete conversation.
LEMMA RunFacts ==
  ASSUME Inv, NEW c \in Convs, NEW k \in Runs, task[c][k] # "none"
  PROVE  /\ conv[c].run > 0 /\ Complete(conv[c]) /\ conv[c].answers = Numbers /\ ~Flies(sends[c], "intro")
         /\ RowsComplete(c) /\ (task[c][k] \in {"posting", "persisting"} => Saved(c))
  <1>1. CInv(c) /\ conv[c] \in Conv
    BY DEF Inv, TypeOK
  <1>2. conv[c].run > 0 /\ RowsComplete(c)
    BY <1>1 DEF CInv, RowsOK, RowsComplete
  <1>3. Complete(conv[c]) /\ ~Flies(sends[c], "intro")
    BY <1>1, <1>2 DEF CInv, ConvOK, ShapeOK
  <1>4. task[c][k] \in {"posting", "persisting"} => Saved(c)
    <2>1. conv[c].submission # 0 => conv[c].submission \in Runs
      BY <1>1 DEF Conv
    <2> QED
      BY <1>2, <2>1 DEF RowsComplete, Saved
  <1> QED
    BY <1>2, <1>3, <1>4 DEF Complete

LEMMA AbortStep ==
  ASSUME Inv, NEW c \in Convs, NEW k \in Runs, task[c][k] # "none", Abort(c, k)
  PROVE  Inv'
  <1>1. /\ task \in [Convs -> [Runs -> Tasks]] /\ row \in [Convs -> [Runs -> Row]]
        /\ Complete(conv[c]) /\ ~Flies(sends[c], "intro") /\ RowsComplete(c)
    BY RunFacts DEF Inv, TypeOK, Tasks
  <1>2. /\ task' = [task EXCEPT ![c] = [task[c] EXCEPT ![k] = "none"]] /\ Send(c, Notice("failed"))
        /\ conv' = conv /\ row' = row /\ UNCHANGED history /\ Aside
    BY DEF Abort, Advance, Aside
  <1>3. /\ task' \in [Convs -> [Runs -> Tasks]] /\ \A d \in Convs \ {c} : task'[d] = task[d]
        /\ \A j \in Runs : task'[c][j] # "none" => task'[c][j] = task[c][j]
    BY <1>1, <1>2 DEF Tasks
  <1>4. Numbers' = Numbers /\ Runs' = Runs
    BY <1>2 DEF Aside, world, N, Numbers, Runs
  <1>5. RowsComplete(c)' /\ (Saved(c) => Saved(c)')
    BY <1>1, <1>2, <1>3, <1>4 DEF RowsComplete, Saved
  <1> QED
    BY <1>1, <1>2, <1>3, <1>5, NoticeStep

\* A run goes on without sending anything: what it saved, and where it waits.
LEMMA RunStep ==
  ASSUME Inv, NEW c \in Convs, NEW k \in Runs, task[c][k] # "none", Aside, UNCHANGED <<sends, history>>,
         NEW t \in Tasks, Advance(c, k, t), t # "none" \/ form = "gone",
         \/ UNCHANGED <<conv, row>> /\ (t \in {"posting", "persisting"} => Saved(c) /\ conv[c].submission # 0)
         \/ Save(c, k, conv[c])
  PROVE  Inv'
  <1>1. /\ TypeOK /\ setup \in Setups /\ conv \in [Convs -> Conv] /\ conv[c] \in Conv
        /\ sends \in [Convs -> Seq(Messages)]
        /\ task \in [Convs -> [Runs -> Tasks]] /\ row \in [Convs -> [Runs -> Row]]
        /\ told \in [Convs -> SUBSET Outcomes] /\ refused \subseteq Convs
        /\ CInv(c) /\ ShapeOK(conv[c], sends[c])
    BY DEF Inv, TypeOK, CInv, ConvOK, Tasks, Outcomes
  <1>2. setup' = setup /\ N' = N /\ Numbers' = Numbers /\ Runs' = Runs /\ click' = click /\ form' = form
        /\ told' = told /\ refused' = refused /\ sends' = sends
    BY DEF Aside, world, history, N, Numbers, Runs
  <1>3. /\ conv[c].run > 0 /\ Complete(conv[c]) /\ conv[c].answers = Numbers /\ ~Flies(sends[c], "intro")
        /\ RowsComplete(c)
    BY RunFacts
  <1>4. /\ task' \in [Convs -> [Runs -> Tasks]] /\ \A d \in Convs \ {c} : task'[d] = task[d]
        /\ task'[c][k] = t /\ \A j \in Runs \ {k} : task'[c][j] = task[c][j]
    BY <1>1 DEF Advance
  <1>5. HeardOK(c)'
    BY <1>2, <1>4 DEF HeardOK, Pending
  <1>6. CASE UNCHANGED <<conv, row>> /\ (t \in {"posting", "persisting"} => Saved(c) /\ conv[c].submission # 0)
    <2>1. conv' = conv /\ row' = row
      BY <1>6
    <2>2. ConvOK(c)'
      BY <1>1, <1>2, <2>1, ConvCarried DEF CInv, ConvOK
    <2>3. RowsComplete(c)'
      <3>1. /\ \A j \in Runs : task'[c][j] # "none" => conv[c].run > 0
            /\ \A j \in Runs : task'[c][j] \in {"posting", "persisting"} => conv[c].submission # 0
        BY <1>3, <1>4, <1>6 DEF RowsComplete
      <3> QED
        BY <1>2, <1>3, <2>1, <3>1 DEF RowsComplete
    <2>4. RowsOK(c)'
      BY <1>1, <1>2, <2>1, <2>3 DEF CInv, RowsOK, Saved, Flies
    <2>5. Touches(c)
      BY <1>1, <1>2, <1>4, <2>1 DEF Touches, Tasks
    <2>6. Afterwards(c)
      BY <1>2, <1>5, <2>2, <2>4, <2>5, OneTouched DEF CInv, Afterwards
    <2> QED
      BY <1>1, <1>2, <2>6, AsideTyped, AfterwardsInv
  <1>7. CASE Save(c, k, conv[c])
    <2>1. SaveDone(c, k, conv[c])
      BY <1>1, <1>7, SaveFacts
    <2>2. Saved(c)'
      BY <1>2, <2>1 DEF SaveDone, Saved
    <2>3. RowsComplete(c)'
      <3>1. \A j \in Runs : row'[c][j] # NoRow => row'[c][j].answers = Numbers
        BY <1>3, <2>1 DEF SaveDone, RowsComplete
      <3>2. /\ conv'[c].submission = k /\ k # 0 /\ row'[c][conv'[c].submission] # NoRow
            /\ conv'[c].run > 0
        BY <1>1, <2>1, NumbersFacts DEF SaveDone
      <3> QED
        BY <1>2, <3>1, <3>2 DEF RowsComplete
    <2>4. RowsOK(c)'
      BY <2>2, <2>3 DEF RowsOK
    <2>5. Touches(c)
      BY <1>1, <1>2, <1>4, <2>1 DEF Touches, Tasks, SaveDone
    <2>6. ConvOK(c)'
      <3> DEFINE e == conv'[c]
      <3>1. e \in Conv /\ Ran(conv[c], e)
        BY <2>1 DEF SaveDone
      <3>2. /\ e.answers = conv[c].answers /\ e.at = conv[c].at /\ e.message = conv[c].message
            /\ e.kind = conv[c].kind /\ e.index = conv[c].index /\ e.editing = conv[c].editing
            /\ e.menu = conv[c].menu /\ e.next = conv[c].next /\ e.armed = conv[c].armed
        <4> HIDE DEF e
        <4> QED
          BY <1>1, <3>1 DEF Ran, Conv
      <3> HIDE DEF e
      <3>3. Complete(e) /\ Awaited(e) = Awaited(conv[c])
        BY <1>3, <3>2 DEF Complete, Editing, Confirming, Selecting, Awaited
      <3>4. ShapeOK(e, sends[c])
        BY <1>1, <1>3, <3>2, <3>3, CompleteFacts DEF ShapeOK
      <3>5. PromptOK(conv[c], sends[c]) => PromptOK(e, sends[c])
        BY <3>2, <3>3 DEF PromptOK
      <3>6. c \in refused' \/ PromptOK(e, sends[c])
        BY <1>1, <1>2, <3>5 DEF CInv, ConvOK
      <3> QED
        BY <1>2, <3>4, <3>6, ConvCarried DEF e
    <2>7. Afterwards(c)
      BY <1>2, <1>5, <2>4, <2>5, <2>6, OneTouched DEF CInv, Afterwards
    <2> QED
      BY <1>1, <1>2, <2>7, AsideTyped, AfterwardsInv
  <1> QED
    BY <1>6, <1>7

LEMMA PersistStep ==
  ASSUME Inv, NEW c \in Convs, NEW k \in Runs, PersistReviewMessage(c, k)
  PROVE  Inv'
  <1> DEFINE s == conv[c].submission
             x == [row[c][s] EXCEPT !.state = "posted"]
  <1>1. /\ task \in [Convs -> [Runs -> Tasks]] /\ row \in [Convs -> [Runs -> Row]] /\ conv[c] \in Conv
    BY DEF Inv, TypeOK, Tasks
  <1>2. /\ task[c][k] = "persisting" /\ row[c][s].state \in {"unposted", "posted"}
        /\ task' = [task EXCEPT ![c] = [task[c] EXCEPT ![k] = "none"]]
        /\ row' = [row EXCEPT ![c] = [row[c] EXCEPT ![s] = x]]
        /\ Send(c, Notice("submitted")) /\ conv' = conv /\ UNCHANGED history /\ Aside
    BY DEF PersistReviewMessage, Advance, Aside
  <1>3. /\ Complete(conv[c]) /\ ~Flies(sends[c], "intro") /\ RowsComplete(c) /\ Saved(c)
    BY <1>2, RunFacts
  <1>4. s \in Runs /\ row[c][s] # NoRow
    BY <1>1, <1>2, <1>3 DEF RowsComplete, Conv
  <1>5. x \in Row /\ x # NoRow /\ x.answers = row[c][s].answers
    <2>1. row[c][s] \in [state : {"unposted", "posted", "deleted"}, answers : SUBSET Numbers]
      BY <1>1, <1>4 DEF Row
    <2> QED
      BY <2>1 DEF Row, NoRow
  <1> HIDE DEF x, s
  <1>6. /\ task' \in [Convs -> [Runs -> Tasks]] /\ \A d \in Convs \ {c} : task'[d] = task[d]
        /\ \A j \in Runs : task'[c][j] # "none" => task'[c][j] = task[c][j]
    BY <1>1, <1>2 DEF Tasks
  <1>7. /\ row' \in [Convs -> [Runs -> Row]] /\ \A d \in Convs \ {c} : row'[d] = row[d]
        /\ row'[c][s] = x /\ \A j \in Runs \ {s} : row'[c][j] = row[c][j]
    BY <1>1, <1>2, <1>4, <1>5
  <1>8. Numbers' = Numbers /\ Runs' = Runs
    BY <1>2 DEF Aside, world, N, Numbers, Runs
  <1>9. Saved(c)'
    BY <1>4, <1>5, <1>7, <1>8 DEF Saved
  <1>10. RowsComplete(c)'
    <2>1. \A j \in Runs : row'[c][j] # NoRow => row'[c][j].answers = Numbers
      BY <1>3, <1>4, <1>5, <1>7 DEF RowsComplete
    <2>2. row'[c][conv[c].submission] # NoRow
      BY <1>5, <1>7 DEF s
    <2> QED
      BY <1>2, <1>3, <1>6, <1>8, <2>1, <2>2 DEF RowsComplete
  <1> QED
    BY <1>2, <1>3, <1>6, <1>7, <1>9, <1>10, NoticeStep

LEMMA SubmitStepInv ==
  ASSUME Inv, NEW c \in Convs, NEW k \in Runs, SubmitStep(c, k)
  PROVE  Inv'
  <1>1. CASE SaveSubmission(c, k)
    <2>1. Aside /\ UNCHANGED <<sends, history>> /\ task[c][k] = "fetching"
      BY <1>1 DEF SaveSubmission, Aside
    <2>2. \/ Advance(c, k, "none") /\ form = "gone" /\ UNCHANGED <<conv, row>>
          \/ Advance(c, k, "none") /\ form = "gone" /\ Save(c, k, conv[c])
          \/ Advance(c, k, "posting") /\ Save(c, k, conv[c])
      BY <1>1 DEF SaveSubmission
    <2> QED
      BY <2>1, <2>2, RunStep DEF Tasks
  <1>2. CASE ChannelUnreachable(c, k) \/ PostFails(c, k) \/ PersistFindsNoRow(c, k)
    BY <1>2, AbortStep DEF ChannelUnreachable, PostFails, PersistFindsNoRow
  <1>3. CASE PostEmbed(c, k)
    <2>1. Aside /\ UNCHANGED <<conv, sends, row, history>> /\ task[c][k] = "posting" /\ Advance(c, k, "persisting")
      BY <1>3 DEF PostEmbed, Aside
    <2>2. Saved(c) /\ conv[c].submission # 0
      BY <2>1, RunFacts DEF RowsComplete
    <2> QED
      BY <2>1, <2>2, RunStep DEF Tasks
  <1>4. CASE PersistReviewMessage(c, k)
    BY <1>4, PersistStep
  <1> QED
    BY <1>1, <1>2, <1>3, <1>4 DEF SubmitStep

-----------------------------------------------------------------------------
(* The surroundings.                                                        *)

LEMMA SurroundingsStep ==
  ASSUME Inv,
         \/ \E c \in Convs : Apply(c) \/ BeginRefused(c)
         \/ OfferShown \/ FormUnset \/ ChannelLost
  PROVE  Inv'
  <1>1. /\ click \in [Convs -> Clicks] /\ manager \in Convs \cup {Nobody} /\ offer \in Offers
        /\ form \in {"ready", "unset", "gone"} /\ reachable \in BOOLEAN
        /\ told \in [Convs -> SUBSET Outcomes] /\ refused \subseteq Convs
    BY DEF Inv, TypeOK, Clicks, Offers, Outcomes
  <1>2. /\ setup' = setup /\ manager' = manager /\ UNCHANGED <<conv, sends, submission, history>>
        /\ form' \in {form, "unset"} /\ (form = "gone" => form' = "gone") /\ reachable' \in {reachable, FALSE}
    BY DEF Apply, BeginRefused, OfferShown, FormUnset, ChannelLost, world
  <1>3. click' \in [Convs -> Clicks] /\ \A d \in Convs : click[d] = "lost" => click'[d] = "lost"
    <2>1. \/ click' = click
          \/ \E c \in Convs : click[c] = "idle" /\ click' = [click EXCEPT ![c] = "checked"]
          \/ \E c \in Convs : click[c] = "checked" /\ click' = [click EXCEPT ![c] = "refused"]
      BY DEF Apply, BeginRefused, OfferShown, FormUnset, ChannelLost
    <2> QED
      BY <1>1, <2>1 DEF Clicks
  <1>4. offer' \in Offers
    <2>1. offer' = offer \/ (offer # NoOffer /\ offer' = [offer EXCEPT !.shown = TRUE])
      BY DEF Apply, BeginRefused, OfferShown, FormUnset, ChannelLost
    <2> HIDE DEF NoOffer
    <2> QED
      BY <1>1, <2>1 DEF Offers
  <1>5. OthersTyped
    BY <1>1, <1>2, <1>3, <1>4 DEF OthersTyped, history
  <1> QED
    BY <1>2, <1>3, <1>5, AsideInv

LEMMA FormDeletedStep ==
  ASSUME Inv, FormDeleted
  PROVE  Inv'
  <1>1. /\ conv \in [Convs -> Conv] /\ sends \in [Convs -> Seq(Messages)]
        /\ task \in [Convs -> [Runs -> Tasks]] /\ row \in [Convs -> [Runs -> Row]]
        /\ click \in [Convs -> Clicks] /\ manager \in Convs \cup {Nobody} /\ offer \in Offers
        /\ reachable \in BOOLEAN /\ told \in [Convs -> SUBSET Outcomes] /\ refused \subseteq Convs
    BY DEF Inv, TypeOK, Tasks, Clicks, Offers, Outcomes
  <1>2. /\ setup' = setup /\ form' = "gone" /\ conv' = conv /\ sends' = sends /\ task' = task
        /\ told' = told /\ refused' = refused
        /\ reachable' = reachable /\ click' = click /\ manager' = manager /\ offer' = offer
    BY DEF FormDeleted, history
  <1>3. ASSUME NEW r \in Row, r # NoRow
        PROVE  LET x == [r EXCEPT !.state = "deleted"] IN x \in Row /\ x # NoRow /\ x.answers = r.answers
    BY <1>3 DEF Row, NoRow
  <1>4. ASSUME NEW c \in Convs, NEW k \in Runs
        PROVE  /\ row'[c][k] \in Row /\ (row'[c][k] = NoRow <=> row[c][k] = NoRow)
               /\ row[c][k] # NoRow => row'[c][k].answers = row[c][k].answers
    <2>1. row'[c][k] = IF row[c][k] = NoRow THEN NoRow ELSE [row[c][k] EXCEPT !.state = "deleted"]
      BY DEF FormDeleted
    <2>2. row[c][k] \in Row /\ NoRow \in Row
      BY <1>1 DEF Row
    <2> QED
      BY <1>3, <2>1, <2>2
  <1>5. row' \in [Convs -> [Runs -> Row]]
    <2>1. row' = [c \in Convs |-> [k \in Runs |-> row'[c][k]]]
      BY DEF FormDeleted
    <2> QED
      BY <1>4, <2>1
  <1>6. Numbers' = Numbers /\ Runs' = Runs
    BY <1>2 DEF N, Numbers, Runs
  <1>7. ASSUME NEW d \in Convs PROVE CInv(d)'
    <2>1. CInv(d)
      BY DEF Inv
    <2>2. ConvOK(d)'
      BY <1>2, <2>1, ConvCarried DEF CInv, ConvOK
    <2>3. conv[d].submission # 0 => conv[d].submission \in Runs
      BY <1>1 DEF Conv
    <2>4. RowsComplete(d)' /\ (Saved(d) => Saved(d)')
      BY <1>2, <1>4, <1>6, <2>1, <2>3 DEF CInv, RowsOK, RowsComplete, Saved
    <2>5. RowsOK(d)'
      BY <1>2, <2>1, <2>4 DEF CInv, RowsOK, Flies
    <2>6. HeardOK(d)'
      BY <1>2 DEF HeardOK
    <2> QED
      BY <2>2, <2>5, <2>6 DEF CInv
  <1>8. TypeOK'
    BY <1>1, <1>2, <1>5, TypesCarried DEF OthersTyped
  <1> QED
    BY <1>7, <1>8 DEF Inv

\* A conversation that a restart leaves behind takes no events, and stands where it stood.
LEMMA LeftBehind ==
  ASSUME NEW cv \in Conv
  PROVE  LET x == [cv EXCEPT !.active = FALSE, !.message = Unset]
         IN /\ x \in Conv /\ x.message = Unset /\ x.at = cv.at /\ x.kind = cv.kind
            /\ x.next = cv.next /\ x.armed = cv.armed /\ x.menu = cv.menu
            /\ x.index = cv.index /\ x.editing = cv.editing /\ x.answers = cv.answers
            /\ x.run = cv.run /\ x.submission = cv.submission
  <1> DEFINE x == [cv EXCEPT !.active = FALSE, !.message = Unset]
  <1>1. x \in Conv
    BY DEF Conv
  <1>2. /\ x.message = Unset /\ x.at = cv.at /\ x.kind = cv.kind /\ x.next = cv.next
        /\ x.armed = cv.armed /\ x.menu = cv.menu /\ x.index = cv.index
    BY DEF Conv
  <1>3. /\ x.editing = cv.editing /\ x.answers = cv.answers /\ x.run = cv.run
        /\ x.submission = cv.submission
    BY DEF Conv
  <1> QED
    BY <1>1, <1>2, <1>3

LEMMA RestartStep ==
  ASSUME Inv, Restart
  PROVE  Inv'
  <1>1. /\ setup \in Setups /\ form \in {"ready", "unset", "gone"} /\ conv \in [Convs -> Conv]
        /\ row \in [Convs -> [Runs -> Row]]
        /\ click \in [Convs -> Clicks] /\ reachable \in BOOLEAN
        /\ told \in [Convs -> SUBSET Outcomes] /\ refused \subseteq Convs
    BY DEF Inv, TypeOK, Clicks, Outcomes
  <1>2. /\ setup' = setup /\ form' = form /\ reachable' = reachable /\ row' = row
        /\ told' = told /\ refused' = refused /\ manager' = Nobody /\ offer' = NoOffer
        /\ sends' = [c \in Convs |-> <<>>] /\ task' = [c \in Convs |-> [k \in Runs |-> "none"]]
        /\ click' = [c \in Convs |-> IF click[c] = "idle" THEN "idle" ELSE "lost"]
    BY DEF Restart, world, history
  <1>3. Numbers' = Numbers /\ Runs' = Runs
    BY <1>2 DEF N, Numbers, Runs
  <1>4. /\ Fresh \in Conv /\ Beginning(Fresh) /\ Fresh.run = 0 /\ Fresh.submission = 0 /\ Fresh.message = Unset
    BY <1>1, NumbersFacts, NamesAreStates, NamesDiffer DEF Fresh, Conv, Beginning
  <1>5. ASSUME NEW c \in Convs
        PROVE  LET x == [conv[c] EXCEPT !.active = FALSE, !.message = Unset]
               IN /\ x \in Conv /\ Placed(x) /\ x.submission = conv[c].submission /\ x.message = Unset
                  /\ x.run > 0 => Complete(x)
    <2> DEFINE x == [conv[c] EXCEPT !.active = FALSE, !.message = Unset]
    <2>1. /\ x \in Conv /\ x.message = Unset /\ x.at = conv[c].at /\ x.kind = conv[c].kind
          /\ x.next = conv[c].next /\ x.armed = conv[c].armed /\ x.menu = conv[c].menu
          /\ x.index = conv[c].index /\ x.editing = conv[c].editing /\ x.answers = conv[c].answers
          /\ x.run = conv[c].run /\ x.submission = conv[c].submission
      <3>1. conv[c] \in Conv
        BY <1>1
      <3> QED
        BY <3>1, LeftBehind
    <2>2. ShapeOK(conv[c], sends[c])
      BY DEF Inv, CInv, ConvOK
    <2> HIDE DEF x
    <2>3. Complete(conv[c]) => Complete(x)
      BY <2>1 DEF Complete, Editing, Confirming, Selecting
    <2>4. (Walking(conv[c]) => Walking(x)) /\ (Beginning(conv[c]) => Beginning(x))
      BY <2>1 DEF Walking, AtQuestion, AtConfirm, Beginning
    <2>5. Placed(x) /\ (x.run > 0 => Complete(x))
      BY <2>1, <2>2, <2>3, <2>4 DEF ShapeOK, Placed
    <2> QED
      BY <2>1, <2>5 DEF x
  <1>6. ASSUME NEW c \in Convs
        PROVE  /\ conv'[c] \in Conv /\ Placed(conv'[c]) /\ conv'[c].message = Unset
               /\ conv'[c].run > 0 => Complete(conv'[c]) /\ click[c] # "idle"
               /\ conv'[c].submission \in {0, conv[c].submission}
    <2>1. conv'[c] = IF click[c] = "idle" THEN Fresh ELSE [conv[c] EXCEPT !.active = FALSE, !.message = Unset]
      BY DEF Restart
    <2>2. CASE click[c] = "idle"
      BY <1>4, <2>1, <2>2 DEF Placed
    <2>3. CASE click[c] # "idle"
      BY <1>5, <2>1, <2>3
    <2> QED
      BY <2>2, <2>3
  <1>7. conv' \in [Convs -> Conv]
    <2>1. conv' = [c \in Convs |-> conv'[c]]
      BY DEF Restart
    <2> QED
      BY <1>6, <2>1
  <1>8. ASSUME NEW d \in Convs PROVE CInv(d)'
    <2>1. CInv(d) /\ \A w : ~Flies(<<>>, w)
      BY DEF Inv, Flies
    <2>2. sends'[d] = <<>> /\ \A k \in Runs : task'[d][k] = "none"
      BY <1>2
    <2> DEFINE e == conv'[d]
    <2>3. ShapeOK(e, <<>>) /\ PromptOK(e, <<>>)
      <3>1. /\ Placed(e) /\ e.message = Unset /\ (e.run > 0 => Complete(e))
        BY <1>6
      <3>2. IntroFirst(<<>>) /\ LastPrompt(<<>>, Awaited(e))
        BY DEF IntroFirst, LastPrompt
      <3> HIDE DEF e
      <3> QED
        BY <2>1, <3>1, <3>2 DEF ShapeOK, PromptOK
    <2>4. ConvOK(d)'
      BY <1>2, <2>2, <2>3, ConvCarried
    <2>5. RowsComplete(d)' /\ (Saved(d) => Saved(d)')
      BY <1>2, <1>3, <1>6, <2>1, <2>2 DEF CInv, RowsOK, RowsComplete, Saved
    <2>6. ~Flies(sends[d], "submitted")'
      BY <2>2 DEF Flies
    <2>7. RowsOK(d)'
      BY <1>2, <2>1, <2>5, <2>6 DEF CInv, RowsOK
    <2>8. HeardOK(d)'
      BY <1>2, <1>6 DEF HeardOK
    <2> QED
      BY <2>4, <2>7, <2>8 DEF CInv
  <1>9. TypeOK'
    <2>1. sends' \in [Convs -> Seq(Messages)] /\ task' \in [Convs -> [Runs -> Tasks]]
      BY <1>2 DEF Tasks
    <2>2. click' \in [Convs -> Clicks]
      BY <1>2 DEF Clicks
    <2>3. OthersTyped
      BY <1>1, <1>2, <2>2 DEF OthersTyped, Offers
    <2> QED
      BY <1>1, <1>2, <1>7, <2>1, <2>3, TypesCarried
  <1> QED
    BY <1>8, <1>9 DEF Inv

-----------------------------------------------------------------------------
(* The invariant holds.                                                     *)

LEMMA NextInv == Inv /\ [Next]_vars => Inv'
  <1> SUFFICES ASSUME Inv, [Next]_vars PROVE Inv'
    OBVIOUS
  <1>1. ASSUME NEW c \in Convs, Member(c) PROVE Inv'
    BY <1>1, BeginStep, MemberStep, SelectInvalidStep, SurroundingsStep DEF Member
  <1>2. ASSUME NEW c \in Convs, Begin(c) \/ BeginRefused(c) PROVE Inv'
    BY <1>2, BeginStep, SurroundingsStep
  <1>3. ASSUME NEW c \in Convs, Delivery(c) PROVE Inv'
    BY <1>3, PromptStep, ResumeStep, ClosesStep, RefusalStep DEF Delivery
  <1>4. ASSUME NEW c \in Convs, NEW k \in Runs, SubmitStep(c, k) PROVE Inv'
    BY <1>4, SubmitStepInv
  <1>5. CASE OfferShown \/ FormUnset \/ ChannelLost
    BY <1>5, SurroundingsStep
  <1>6. CASE FormDeleted
    BY <1>6, FormDeletedStep
  <1>7. CASE Restart
    BY <1>7, RestartStep
  <1>8. CASE UNCHANGED vars
    <2>1. OthersTyped
      BY <1>8 DEF vars, Inv, TypeOK, OthersTyped, Clicks, Offers, Outcomes
    <2> QED
      BY <1>8, <2>1, AsideInv DEF vars, submission, history
  <1> QED
    BY <1>1, <1>2, <1>3, <1>4, <1>5, <1>6, <1>7, <1>8 DEF Next

LEMMA InvHolds == Spec => []Inv
  BY InitInv, NextInv, PTL DEF Spec

\* Every variable keeps to the values its attributes, tables and handlers can hold,
\* whatever the form and however many conversations.
THEOREM TypeCorrect == Spec => []TypeOK
  <1>1. Inv => TypeOK
    BY DEF Inv
  <1> QED
    BY <1>1, InvHolds, PTL

\* A submission is saved with every question answered, however many questions the
\* form has and whatever way the conversation took through them.
THEOREM SavedAnswersComplete == Spec => []AnswersComplete
  <1>1. Inv => AnswersComplete
    BY DEF Inv, CInv, RowsOK, RowsComplete, AnswersComplete
  <1> QED
    BY <1>1, InvHolds, PTL

\* Nobody is told "submitted" without a saved submission.
THEOREM ToldSubmittedWasSaved == Spec => []SubmittedWasSaved
  <1>1. Inv => SubmittedWasSaved
    BY DEF Inv, CInv, RowsOK, Saved, SubmittedWasSaved
  <1> QED
    BY <1>1, InvHolds, PTL

\* Once every message is delivered, reactions are taken on the prompt of what the
\* conversation awaits, with any number of messages having been on their way.
THEOREM ReactionsOnCurrentPrompt == Spec => []PromptIsCurrent
  <1>1. Inv => PromptIsCurrent
    <2> SUFFICES ASSUME Inv, NEW c \in Convs \ refused, sends[c] = <<>>, conv[c].message # Unset
                 PROVE  conv[c].message = Awaited(conv[c])
      BY DEF PromptIsCurrent
    <2>1. PromptOK(conv[c], <<>>) /\ ~Flies(<<>>, "prompt")
      BY DEF Inv, CInv, ConvOK, Flies
    <2> QED
      BY <2>1 DEF PromptOK
  <1> QED
    BY <1>1, InvHolds, PTL

\* Whoever confirmed is told the outcome once nothing is under way, but for a refused
\* message, a form deleted under the run and a restart.
THEOREM ConfirmedAreTold == Spec => []OutcomeTold
  <1>1. Inv => OutcomeTold
    <2> SUFFICES ASSUME Inv, NEW c \in Convs, conv[c].run > 0, sends[c] = <<>>,
                        \A k \in Runs : task[c][k] = "none"
                 PROVE  told[c] \cap {"submitted", "failed"} # {} \/ c \in refused \/ form = "gone" \/ click[c] = "lost"
      BY DEF OutcomeTold
    <2>1. ~Pending(c)
      BY DEF Pending, Flies
    <2> QED
      BY <2>1 DEF Inv, CInv, HeardOK
  <1> QED
    BY <1>1, InvHolds, PTL

\* Only the member's choice in a PreConversation, or a restart, takes the events from an
\* active conversation.
THEOREM ConversationGivesWayByChoice == Spec => ActiveConversationKept
  <1> DEFINE A == \A c \in Convs : manager = c /\ conv[c].active /\ manager' # c
                    => offer # NoOffer \/ manager' = Nobody
  <1>1. [Next]_vars => [A]_vars
    <2> SUFFICES ASSUME Next, NEW c \in Convs, manager = c, conv[c].active, manager' # c
                 PROVE  offer # NoOffer \/ manager' = Nobody
      OBVIOUS
    <2>1. manager # Nobody
      BY NobodyAssumption
    <2>2. ASSUME NEW d \in Convs, Member(d) PROVE offer # NoOffer
      BY <2>2 DEF Member, Apply, Choose, React, AnswerQuestion, SelectQuestion, SelectInvalid
    <2>3. ASSUME NEW d \in Convs, Begin(d) \/ BeginRefused(d) \/ Delivery(d) PROVE FALSE
      BY <2>1, <2>3 DEF Begin, BeginRefused, Delivery, PromptDelivered, HandlerResumes, Closes, SendFails
    <2>4. ASSUME NEW d \in Convs, NEW k \in Runs, SubmitStep(d, k) PROVE FALSE
      BY <2>4 DEF SubmitStep, SaveSubmission, ChannelUnreachable, PostEmbed, PostFails,
                  PersistReviewMessage, PersistFindsNoRow, Abort
    <2>5. CASE OfferShown \/ FormUnset \/ FormDeleted \/ ChannelLost \/ Restart
      BY <2>5 DEF OfferShown, FormUnset, FormDeleted, ChannelLost, Restart
    <2> QED
      BY <2>2, <2>3, <2>4, <2>5 DEF Next
  <1> QED
    BY <1>1, PTL DEF Spec, ActiveConversationKept
=============================================================================
