----------------------------- MODULE MusicQueue -----------------------------
(***************************************************************************)
(* The music of one guild: the buffer of Audio, the queue and timeout      *)
(* managers, the commands and buttons, and the voice client they share     *)
(* (NerdyPy/modules/music/audio.py, playback.py, playlist.py, views.py).   *)
(*                                                                         *)
(* Songs are numbered as they are requested.  A song is fetched in a       *)
(* thread, then the channel is joined, then playing starts and is          *)
(* announced: three awaits, between which anything else may run.  Fetching *)
(* ahead only makes the first of them short and is left out.  The managers *)
(* are not told a guild the bot was removed from, and one leave runs at a  *)
(* time.                                                                   *)
(***************************************************************************)
EXTENDS Naturals, Sequences, FiniteSets

CONSTANTS
  Songs,     \* 1 .. the bound on requests
  MaxFaults  \* bound on failed downloads, refused connections and kicks

ASSUME SongsAssumption == IsFiniteSet(Songs) /\ Songs = 1 .. Cardinality(Songs)
ASSUME FaultsAssumption == MaxFaults \in Nat

VARIABLES
  asked,   \* how many songs were requested
  stage,   \* how far each is
  queue,   \* BufferKey.QUEUE, or NoQueue
  voice,   \* BufferKey.VOICE_CLIENT: none, on (connected) or off
  player,  \* what the voice client does
  playing, \* the song it was given last
  current, \* current_song
  message, \* now_playing_message
  last,    \* whether lastPlayed has an entry: no, fresh or old
  managed, \* the song _queue_manager has taken
  alive,   \* whether _queue_manager still runs
  leaving, \* how far leave is
  faults,
  overlap, \* history: two of leave and the songs under way ran beside each other
  broke    \* history: a download of the queue manager or the deletion of an embed failed

buffer == <<queue, voice>>
session == <<player, playing, current, message, last>>
musicHistory == <<overlap, broke>>
musicVars == <<asked, stage, buffer, session, managed, alive, leaving, faults, musicHistory>>

NoSong == 0
NoQueue == <<NoSong>>
Stages == {"new", "queued", "fetching", "moving", "connecting", "announcing", "over"}

MusicInit ==
  /\ asked = 0 /\ stage = [s \in Songs |-> "new"]
  /\ queue = NoQueue /\ voice = "none"
  /\ player = "idle" /\ playing = NoSong /\ current = NoSong /\ message = FALSE /\ last = "no"
  /\ managed = NoSong /\ alive = TRUE /\ leaving = "no"
  /\ faults = 0 /\ overlap = FALSE /\ broke = FALSE

Fault == faults < MaxFaults /\ faults' = faults + 1
UnderWay == {s \in Songs : stage[s] \in {"fetching", "moving", "connecting", "announcing"}}
HasQueue == queue # NoQueue
Overlapping == overlap' = (overlap \/ UnderWay # {} \/ leaving # "no")

\* A song is over for the queue manager too, if it was the one that took it.
Over(s) ==
  /\ stage' = [stage EXCEPT ![s] = "over"]
  /\ managed' = IF managed = s THEN NoSong ELSE managed

\* An exception ends a command, but the loop of the queue manager for good.
Raises(s) ==
  /\ Over(s)
  /\ alive' = (alive /\ managed # s)

-----------------------------------------------------------------------------
(* Requests: /play and the songs of playlists loaded in the background.    *)

Enqueue(s) ==
  /\ HasQueue /\ stage' = [stage EXCEPT ![s] = "queued"] /\ queue' = Append(queue, s)
  /\ UNCHANGED <<last, overlap>>

\* The request itself plays its song.
Setup(s) ==
  /\ ~HasQueue /\ stage' = [stage EXCEPT ![s] = "fetching"] /\ queue' = <<>>
  /\ last' = "fresh" /\ Overlapping

Request ==
  /\ asked + 1 \in Songs /\ asked' = asked + 1
  /\ Enqueue(asked') \/ Setup(asked')
  /\ UNCHANGED <<voice, player, playing, current, message, managed, alive, leaving, faults, broke>>

-----------------------------------------------------------------------------
(* _queue_manager.                                                         *)

Ready == last # "no" /\ managed = NoSong /\ alive

\* Mutant: only what goes on after another song is taken.
ManagerTakesNext ==
  /\ Ready /\ HasQueue /\ queue # <<>> /\ player = "idle" /\ current # NoSong
  /\ managed' = Head(queue) /\ queue' = Tail(queue)
  /\ stage' = [stage EXCEPT ![Head(queue)] = "fetching"]
  /\ Overlapping
  /\ UNCHANGED <<asked, voice, session, alive, leaving, faults, broke>>

ManagerTakes ==
  /\ Ready /\ HasQueue /\ queue # <<>> /\ player = "idle"
  /\ managed' = Head(queue) /\ queue' = Tail(queue)
  /\ stage' = [stage EXCEPT ![Head(queue)] = "fetching"]
  /\ Overlapping
  /\ UNCHANGED <<asked, voice, session, alive, leaving, faults, broke>>

\* An entry of lastPlayed without a queue is a KeyError.
ManagerDies ==
  /\ Ready /\ ~HasQueue
  /\ alive' = FALSE
  /\ UNCHANGED <<asked, stage, buffer, session, managed, leaving, faults, musicHistory>>

-----------------------------------------------------------------------------
(* _play, for the queue manager and for a request without a queue.         *)

\* channel.connect is refused while another connection is made or given up.
Fetched(s) ==
  /\ stage[s] = "fetching"
  /\ IF voice = "on"
     THEN stage' = [stage EXCEPT ![s] = "moving"] /\ UNCHANGED <<managed, alive>>
     ELSE IF leaving = "disconnecting" \/ \E t \in Songs : stage[t] = "connecting"
     THEN Raises(s)
     ELSE stage' = [stage EXCEPT ![s] = "connecting"] /\ UNCHANGED <<managed, alive>>
  /\ UNCHANGED <<asked, buffer, session, leaving, faults, musicHistory>>

\* A loop survives an OSError, which some downloads end with.
FetchFails(s) ==
  /\ stage[s] = "fetching" /\ Fault
  /\ \/ Raises(s) /\ broke' = (broke \/ managed = s)
     \/ Over(s) /\ UNCHANGED <<alive, broke>>
  /\ UNCHANGED <<asked, buffer, session, leaving, overlap>>

Joined(s) == stage[s] = "connecting" \/ (stage[s] = "moving" /\ voice = "on")

\* VoiceClient.play is refused while a song plays, not while one is paused.
Plays(s) ==
  IF player = "playing"
  THEN Raises(s) /\ UNCHANGED <<player, playing, last>>
  ELSE /\ stage' = [stage EXCEPT ![s] = "announcing"]
       /\ player' = "playing" /\ playing' = s /\ last' = "fresh"
       /\ UNCHANGED <<managed, alive>>

\* The song is the current one before the voice client may refuse it.
Start(s) ==
  /\ Joined(s) /\ voice' = "on" /\ Plays(s)
  /\ current' = s
  /\ UNCHANGED <<asked, queue, message, leaving, faults, musicHistory>>

\* Not connected in time, or disconnected meanwhile: the song is dropped.
JoinFails(s) ==
  /\ Over(s)
  /\ \/ stage[s] = "connecting" /\ Fault
     \/ stage[s] = "moving" /\ voice # "on" /\ UNCHANGED faults
  /\ UNCHANGED <<asked, buffer, session, alive, leaving, musicHistory>>

\* The hook sends or edits the embed; what cannot be sent is not remembered.
Announce(s) ==
  /\ stage[s] = "announcing" /\ Over(s)
  /\ \/ message' = TRUE /\ UNCHANGED faults
     \/ Fault /\ message' \in {message, FALSE}
  /\ UNCHANGED <<asked, buffer, player, playing, current, last, alive, leaving, musicHistory>>

-----------------------------------------------------------------------------
(* The voice client and its controls.                                      *)

Controls == UNCHANGED <<asked, stage, managed, alive, leaving, musicHistory>>

SongEnds ==
  /\ player = "playing" /\ player' = "idle"
  /\ Controls /\ UNCHANGED <<buffer, playing, current, message, last, faults>>

Skip ==
  /\ message /\ player # "idle" /\ player' = "idle"
  /\ Controls /\ UNCHANGED <<buffer, playing, current, message, last, faults>>

PauseResume ==
  /\ message /\ player # "idle" /\ player' = IF player = "playing" THEN "paused" ELSE "playing"
  /\ Controls /\ UNCHANGED <<buffer, playing, current, message, last, faults>>

\* The songs of the old queue are gone; the button also deletes its embed.
StopAndClear(button) ==
  /\ asked > 0 /\ IF button THEN message \/ leaving = "deleting" ELSE voice = "on"
  /\ stage' = [s \in Songs |-> IF stage[s] = "queued" THEN "over" ELSE stage[s]]
  /\ queue' = <<>> /\ last' = "fresh"
  /\ player' = "idle" /\ current' = NoSong
  /\ message' = (message /\ ~button)
  /\ UNCHANGED <<asked, voice, playing, managed, alive, leaving, faults, musicHistory>>

\* The embed was deleted by hand: _progress_updater forgets it.
EmbedGone ==
  /\ message /\ player # "paused" /\ current # NoSong /\ message' = FALSE
  /\ Controls /\ UNCHANGED <<buffer, player, playing, current, last, faults>>

Kicked ==
  /\ voice = "on" /\ Fault
  /\ voice' = "off" /\ player' = "idle"
  /\ Controls /\ UNCHANGED <<queue, playing, current, message, last>>

-----------------------------------------------------------------------------
(* leave, by command or by _timeout_manager, up to each of its awaits.     *)

\* Mutant: the entry of lastPlayed stays.
ClearBufferWatched ==
  /\ leaving' = "no" /\ current' = NoSong
  /\ stage' = [s \in Songs |-> IF stage[s] = "queued" THEN "over" ELSE stage[s]]
  /\ queue' = NoQueue /\ UNCHANGED last

ClearBuffer ==
  /\ leaving' = "no" /\ current' = NoSong
  /\ stage' = [s \in Songs |-> IF stage[s] = "queued" THEN "over" ELSE stage[s]]
  /\ queue' = NoQueue /\ last' = "no"

\* Mutant: the embed is not taken.
TakeMessageNot == ClearBuffer /\ UNCHANGED message

TakeMessage ==
  /\ message' = FALSE
  /\ IF message THEN leaving' = "deleting" /\ UNCHANGED <<stage, queue, last, current>> ELSE ClearBuffer

Leave ==
  /\ leaving = "no" /\ asked > 0
  /\ overlap' = (overlap \/ UnderWay # {})
  /\ IF voice = "on"
     THEN /\ voice' = "off" /\ player' = "idle" /\ leaving' = "disconnecting"
          /\ UNCHANGED <<stage, queue, last, current, message>>
     ELSE TakeMessage /\ UNCHANGED <<voice, player>>
  /\ UNCHANGED <<asked, playing, managed, alive, faults, broke>>

Disconnected ==
  /\ leaving = "disconnecting" /\ TakeMessage
  /\ UNCHANGED <<asked, voice, player, playing, managed, alive, faults, musicHistory>>

Deleted ==
  /\ leaving = "deleting" /\ ClearBuffer
  /\ UNCHANGED <<asked, voice, player, playing, message, managed, alive, faults, musicHistory>>

\* discord.py refuses: the embed is forgotten, the buffer stays as it is.
DeleteFails ==
  /\ leaving = "deleting" /\ Fault /\ leaving' = "no" /\ broke' = TRUE
  /\ UNCHANGED <<asked, stage, buffer, session, managed, alive, overlap>>

\* Ten minutes since lastPlayed; no download takes as long.
GrowsOld ==
  /\ last = "fresh" /\ UnderWay = {} /\ last' = "old"
  /\ Controls /\ UNCHANGED <<buffer, player, playing, current, message, faults>>

StillPlaying ==
  /\ last = "old" /\ player = "playing" /\ last' = "fresh"
  /\ Controls /\ UNCHANGED <<buffer, player, playing, current, message, faults>>

TimedOut == last = "old" /\ voice = "on" /\ player # "playing" /\ Leave

MusicNext ==
  \/ Request \/ ManagerTakes \/ ManagerDies
  \/ \E s \in Songs : Fetched(s) \/ FetchFails(s) \/ Start(s) \/ JoinFails(s) \/ Announce(s)
  \/ SongEnds \/ Skip \/ PauseResume \/ (\E button \in BOOLEAN : StopAndClear(button)) \/ EmbedGone \/ Kicked
  \/ Leave \/ Disconnected \/ Deleted \/ DeleteFails \/ GrowsOld \/ StillPlaying \/ TimedOut

MusicSpec == MusicInit /\ [][MusicNext]_musicVars

\* The loops go on while they live; downloads, calls and songs end; time passes.
MusicFairSpec ==
  /\ MusicSpec
  /\ WF_musicVars(ManagerTakes) /\ WF_musicVars(SongEnds)
  /\ WF_musicVars(Disconnected) /\ WF_musicVars(Deleted)
  /\ WF_musicVars(GrowsOld) /\ WF_musicVars(TimedOut)
  /\ \A s \in Songs : /\ WF_musicVars(Fetched(s)) /\ WF_musicVars(Start(s))
                     /\ WF_musicVars(JoinFails(s)) /\ WF_musicVars(Announce(s))

-----------------------------------------------------------------------------

\* Types; what plays does so through a connected voice client, and a guild with
\* a queue is one the managers look at.
MusicTypeOK ==
  /\ asked \in 0 .. Cardinality(Songs) /\ stage \in [Songs -> Stages]
  /\ queue \in Seq(0 .. Cardinality(Songs)) /\ voice \in {"none", "on", "off"}
  /\ player \in {"idle", "playing", "paused"} /\ playing \in 0 .. asked /\ current \in 0 .. asked
  /\ message \in BOOLEAN /\ last \in {"no", "fresh", "old"}
  /\ managed \in 0 .. asked /\ alive \in BOOLEAN /\ leaving \in {"no", "disconnecting", "deleting"}
  /\ faults \in 0 .. MaxFaults /\ overlap \in BOOLEAN /\ broke \in BOOLEAN
  /\ player # "idle" => voice = "on"
  /\ HasQueue => last # "no"

\* The loop that plays the queues of every guild ends only by a failed download of
\* its own or a failed deletion of an embed, or by songs and a leave that ran beside
\* each other: by itself it is never refused a connection or the player, and finds
\* no guild without a queue (audio.py:141).
ManagerLives == ~alive => overlap \/ broke

\* Once leave is done and nothing is under way the guild is as if nothing had
\* been played: no sound, no embed, no current song, no queue to wait for (audio.py:303).
SilentAfterLeave ==
  ~HasQueue /\ leaving = "no" /\ UnderWay = {} /\ ~overlap =>
    player = "idle" /\ voice # "on" /\ ~message /\ current = NoSong /\ last = "no"

\* While the loop lives, and nothing stays paused, a queued song is taken or cleared (audio.py:139).
QueuedIsPlayed ==
  \A s \in Songs : stage[s] = "queued" ~> stage[s] # "queued" \/ player = "paused" \/ ~alive
=============================================================================
