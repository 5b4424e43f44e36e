---------------------------- MODULE UploadedFile ----------------------------
(***************************************************************************)
(* What the job of a resumable upload promises, whichever browser sends    *)
(* the chunks: its content grows by the next piece, every piece comes from *)
(* files of the fingerprint the job was opened with, and the job is handed *)
(* on only when it is whole.  A piece is not written again once it is      *)
(* there, unless nothing locks the job.                                    *)
(***************************************************************************)
EXTENDS Integers

CONSTANTS Files, Sample, Length, Missing

VARIABLES
    stage,    \* closed (not there yet), open, sealed, taken or dropped
    owner,    \* the file it was opened for
    content,  \* per chunk: the files its bytes come from, {} if it is not there
    unlocked  \* whether a piece may be written over another

fileVars == <<stage, owner, content, unlocked>>

Nothing == [c \in 0..Length - 1 |-> {}]
Pieces(f) == (SUBSET {g \in Files : Sample[g] = Sample[f]}) \ {{}}
FilledTo(n) == \A c \in 0..Length - 1 : content[c] # {} <=> c < n

Init ==
    /\ stage = "closed"
    /\ owner = Missing
    /\ content = Nothing
    /\ unlocked \in BOOLEAN

Open ==
    /\ stage = "closed"
    /\ stage' = "open"
    /\ owner' \in Files
    /\ UNCHANGED content

Write(c) ==
    /\ \E piece \in Pieces(owner) : content' = [content EXCEPT ![c] = piece]
    /\ UNCHANGED <<stage, owner>>

(* A dropped job may still receive the chunk that was under way.            *)
Append(n) == stage \in {"open", "dropped"} /\ FilledTo(n) /\ Write(n)
Overwrite(c) == unlocked /\ content[c] # {} /\ Write(c)

Seal ==
    /\ stage # "closed"
    /\ FilledTo(Length)
    /\ stage' = "sealed"
    /\ UNCHANGED <<owner, content>>

(* A worker takes a sealed file and may delete it.                          *)
Take ==
    /\ stage \in {"sealed", "taken"}
    /\ stage' = "taken"
    /\ content' \in {content, Nothing}
    /\ UNCHANGED owner

Drop ==
    /\ stage # "closed"
    /\ stage' = "dropped"
    /\ content' \in {content, Nothing}
    /\ UNCHANGED owner

Next ==
    /\ UNCHANGED unlocked
    /\ \/ Open \/ Seal \/ Take \/ Drop
       \/ \E c \in 0..Length - 1 : Append(c) \/ Overwrite(c)

(* A step of this file or of something else.                                *)
Step == UNCHANGED fileVars \/ Next

Spec == Init /\ [][Next]_fileVars
=============================================================================
