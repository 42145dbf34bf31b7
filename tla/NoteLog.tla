------------------------------- MODULE NoteLog -------------------------------
(***************************************************************************)
(* What direct_push captures promise: the capture branch is a log that     *)
(* only grows, every note is written to it at most once, and never over a  *)
(* file that is already there (services._write_and_push_capture).          *)
(***************************************************************************)
EXTENDS Naturals, Sequences

CONSTANTS
    Notes,      \* the notes clients ask to write
    Paths,      \* the paths they are written to
    PathOf,     \* the path of each note
    Others,     \* texts that other people push
    Nowhere     \* the path of what they change elsewhere

VARIABLE log    \* the capture branch: one change per commit

Change == [path : Paths, text : Notes \cup Others] \cup [path : {Nowhere}, text : Others]

PathsIn(s) == {s[i].path : i \in 1..Len(s)}

LogInit == log = <<>>

Publish(n) ==
    /\ PathOf[n] \notin PathsIn(log)
    /\ log' = Append(log, [path |-> PathOf[n], text |-> n])

PushedByOthers ==
    \E p \in Paths \cup {Nowhere}, t \in Others :
        /\ p = Nowhere \/ p \notin PathsIn(log)
        /\ log' = Append(log, [path |-> p, text |-> t])

LogNext == PushedByOthers \/ \E n \in Notes : Publish(n)

LogSpec == LogInit /\ [][LogNext]_log
=============================================================================
