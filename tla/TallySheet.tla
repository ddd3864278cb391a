----------------------------- MODULE TallySheet -----------------------------
(***************************************************************************)
(* What counting promises, without topics, consumers, retries and crashes: *)
(* a sheet that says how often each vote has been added to the totals. A   *)
(* report or batch entry is added in the very step that records its event, *)
(* and no other event may have its key; a vote that the voter has cast     *)
(* online is recorded first and may be added more than once. The           *)
(* leaderboards follow the sheet, and pass it only by being told of an      *)
(* addition more often than once.                                          *)
(*                                                                         *)
(* VoteCounting.tla implements this specification.                         *)
(***************************************************************************)
EXTENDS Naturals

CONSTANTS
    Message,        \* the votes that messages may carry
    Admissible,     \* those of them that may be counted
    Cast,           \* those that are recorded by CastVote, before they are published
    KeyOf,          \* the idempotency key of each message
    Counter,        \* the Redis counters
    Sends           \* how often a counter may be told of one addition

VARIABLES
    events,         \* the messages whose event is recorded
    sheet,          \* how often each message has been added to the read models
    boards          \* how often each message has been added to each Redis counter

sheetVars == <<events, sheet, boards>>

SheetTypeOK ==
    /\ events \subseteq Message
    /\ sheet \in [Message -> Nat]
    /\ boards \in [Message -> [Counter -> Nat]]

SheetInit ==
    /\ events = {}
    /\ sheet = [m \in Message |-> 0]
    /\ boards = [m \in Message |-> [c \in Counter |-> 0]]

KeyIsFree(m) == \A e \in events : KeyOf[e] # KeyOf[m]
AddOnce(m) == sheet' = [sheet EXCEPT ![m] = @ + 1]

\* CastVote records an online vote; it is not in the totals yet.
RecordCast(m) ==
    /\ m \in Cast
    /\ KeyIsFree(m)
    /\ events' = events \cup {m}
    /\ UNCHANGED <<sheet, boards>>

\* A report or batch entry is recorded and added at once.
Enter(m) ==
    /\ m \in Admissible \ Cast
    /\ KeyIsFree(m)
    /\ events' = events \cup {m}
    /\ AddOnce(m)
    /\ UNCHANGED boards

\* An online vote is added, perhaps again.
AddCast(m) ==
    /\ m \in Cast \cap events
    /\ AddOnce(m)
    /\ UNCHANGED <<events, boards>>

\* The counters learn of a message that has been added: not at all, once, or
\* up to Sends times.
Announce(m) ==
    /\ \E told \in [Counter -> 0..Sends] :
          /\ \A c \in Counter : boards[m][c] + told[c] <= Sends * sheet[m]
          /\ boards' = [boards EXCEPT ![m] = [c \in Counter |-> @[c] + told[c]]]
    /\ UNCHANGED <<events, sheet>>

SheetNext ==
    \E m \in Message : RecordCast(m) \/ Enter(m) \/ AddCast(m) \/ Announce(m)

SheetSpec == SheetInit /\ [][SheetNext]_sheetVars
=============================================================================
