----------------------------- MODULE QuestionList -----------------------------
(***************************************************************************)
(* What editing promises about the questions of a form, apart from ids,    *)
(* sort orders and the two databases: they are a list without repetition,  *)
(* a new question is put somewhere among them, a removal takes one out and *)
(* leaves the others in their order, a reordering loses and invents none.  *)
(***************************************************************************)
EXTENDS Integers, SequencesExt

CONSTANT Questions

VARIABLE list

Init == list \in Seq(Questions) /\ IsInjective(list)

Put(q) ==
  /\ q \notin Range(list)
  /\ \E p \in 1..(Len(list) + 1) : list' = InsertAt(list, p, q)

TakeOut == \E p \in DOMAIN list : list' = RemoveAt(list, p)

Rearrange ==
  /\ Len(list') = Len(list)
  /\ Range(list') = Range(list)

Clear == list' = <<>>

Next == (\E q \in Questions : Put(q)) \/ TakeOut \/ Rearrange \/ Clear

Spec == Init /\ [][Next]_list
=============================================================================
