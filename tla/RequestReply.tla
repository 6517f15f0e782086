----------------------------- MODULE RequestReply -----------------------------
(***************************************************************************)
(* What a session promises the operator, free of streams, frames and       *)
(* connections: the commands of a session are executed in the order they   *)
(* were given, each at most once; a command ends with the answer its own   *)
(* execution gave, or is given up, and a command given up may still be     *)
(* executed.  ControlSession implements this.                              *)
(***************************************************************************)
EXTENDS Naturals, Sequences

CONSTANTS
    Sessions,    \* the runs of the master
    Commands,    \* what the operator can ask for
    Answers,     \* what an execution can return
    Failures     \* how a command can end without an answer

VARIABLES
    calls,       \* the commands of each session, in the order given
    done,        \* the results of those of them that were executed
    outcome      \* how those of them that are over ended

vars == <<calls, done, outcome>>

Init ==
    /\ calls = [s \in Sessions |-> <<>>]
    /\ done = [s \in Sessions |-> <<>>]
    /\ outcome = [s \in Sessions |-> <<>>]

Waiting(s) == Len(outcome[s]) < Len(calls[s])

Call(s, c) ==
    /\ ~Waiting(s)
    /\ calls' = [calls EXCEPT ![s] = Append(@, c)]
    /\ UNCHANGED <<done, outcome>>

Perform(s, a) ==
    /\ Len(done[s]) < Len(calls[s])
    /\ done' = [done EXCEPT ![s] = Append(@, a)]
    /\ UNCHANGED <<calls, outcome>>

Return(s) ==
    /\ Waiting(s)
    /\ Len(done[s]) = Len(calls[s])
    /\ outcome' = [outcome EXCEPT ![s] = Append(@, done[s][Len(calls[s])])]
    /\ UNCHANGED <<calls, done>>

GiveUp(s, f) ==
    /\ Waiting(s)
    /\ outcome' = [outcome EXCEPT ![s] = Append(@, f)]
    /\ UNCHANGED <<calls, done>>

Next == \E s \in Sessions :
    \/ \E c \in Commands : Call(s, c)
    \/ \E a \in Answers : Perform(s, a)
    \/ Return(s)
    \/ \E f \in Failures : GiveUp(s, f)

Spec == Init /\ [][Next]_vars
===============================================================================
