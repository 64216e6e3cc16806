----------------------------- MODULE DurableLog -----------------------------
(***************************************************************************)
(* What the write-ahead log of a trading pair promises to the service      *)
(* above it, without files: an ordered history of accepted commands, a     *)
(* confirmed prefix of it, and the state a running engine answers from,    *)
(* which is the history itself. A crash may forget the accepted commands   *)
(* nobody was answered about, last ones first, and never a confirmed one.  *)
(***************************************************************************)
EXTENDS Integers, Sequences

CONSTANT Commands
VARIABLES history,    \* the commands accepted, in order
          confirmed,  \* those of them that were executed and answered
          up,         \* an engine is running
          view        \* the commands it has executed; empty when none is

vars == <<history, confirmed, up, view>>

Init == history = <<>> /\ confirmed = <<>> /\ up = FALSE /\ view = <<>>

\* One command is accepted once everything before it has been executed.
Accept(c) ==
  /\ up /\ view = history
  /\ history' = Append(history, c)
  /\ UNCHANGED <<confirmed, up, view>>

\* Everything accepted is executed and answered, or made durable.
Confirm ==
  /\ up
  /\ view' = history
  /\ confirmed' = history
  /\ UNCHANGED <<history, up>>

Stop ==
  /\ up
  /\ up' = FALSE /\ view' = <<>>
  /\ UNCHANGED <<history, confirmed>>

\* What recovery finds: all that was confirmed and, in order, some of what was
\* accepted after it.
Recover ==
  /\ ~up
  /\ up' = TRUE
  /\ \E k \in Len(confirmed)..Len(history) :
       /\ history' = SubSeq(history, 1, k)
       /\ view' = SubSeq(history, 1, k)
  /\ UNCHANGED confirmed

Next == (\E c \in Commands : Accept(c)) \/ Confirm \/ Stop \/ Recover

Spec == Init /\ [][Next]_vars
=============================================================================
