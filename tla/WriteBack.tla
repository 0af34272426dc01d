----------------------------- MODULE WriteBack -----------------------------
(***************************************************************************)
(* What kivfs_write and kivfs_release rely on for the files that are open: *)
(* the writes of a handle reach the server in their order until the first  *)
(* one fails; from then on none does, and at the latest when the handle is *)
(* released its file is due for an upload.  A handle that was opened       *)
(* without the server promises nothing.                                    *)
(***************************************************************************)
EXTENDS Integers

CONSTANTS
    Handles,    \* the open-file structures
    Files,      \* the files
    Writes,     \* the writes, numbered in the order they are made
    NoFile      \* the handle is not in use

VARIABLES
    file,       \* what each handle was opened on
    flow,       \* where its writes go: to the server, no longer, never
    wrote,      \* those it has acknowledged
    sent,       \* those the server has stored
    due,        \* the files that are to be uploaded, or are gone
    deaths      \* how often the process was killed

wbVars == <<file, flow, wrote, sent, due, deaths>>

Flows == {"closed", "through", "stopped", "local"}

WBInit ==
    /\ file = [h \in Handles |-> NoFile] /\ flow = [h \in Handles |-> "closed"]
    /\ wrote = [h \in Handles |-> {}] /\ sent = [h \in Handles |-> {}]
    /\ due = {} /\ deaths = 0

\* kivfs_open has ended: with a remote descriptor, or without
Opened(h, f) ==
    /\ flow[h] = "closed"
    /\ file' = [file EXCEPT ![h] = f]
    /\ \E a \in {"through", "local"} : flow' = [flow EXCEPT ![h] = a]
    /\ UNCHANGED <<wrote, sent, due, deaths>>

\* kivfs_write: a write that is later than all before
Later(h, t) == \A u \in wrote[h] \cup sent[h] : u < t
Acknowledge(h, t) == wrote' = [wrote EXCEPT ![h] = @ \cup {t}]
Deliver(h, t)     == sent' = [sent EXCEPT ![h] = @ \cup {t}]

\* the server stores it and answers
Through(h, t) ==
    /\ flow[h] = "through" /\ Later(h, t)
    /\ Acknowledge(h, t) /\ Deliver(h, t)
    /\ UNCHANGED <<file, flow, due, deaths>>
\* the request or its answer is lost.  Only with a local copy the write succeeds
Break(h, t) ==
    /\ flow[h] = "through" /\ Later(h, t)
    /\ Acknowledge(h, t) \/ UNCHANGED wrote
    /\ Deliver(h, t) \/ UNCHANGED sent
    /\ flow' = [flow EXCEPT ![h] = "stopped"]
    /\ UNCHANGED <<file, due, deaths>>
\* it stays in the local copy
Keep(h, t) ==
    /\ flow[h] \in {"stopped", "local"} /\ Later(h, t)
    /\ Acknowledge(h, t)
    /\ UNCHANGED <<file, flow, sent, due, deaths>>

\* kivfs_release
Released(h) ==
    /\ flow[h] # "closed"
    /\ due' \in {due, due \cup {file[h]}}
    /\ flow[h] = "stopped" => file[h] \in due'
    /\ file' = [file EXCEPT ![h] = NoFile] /\ flow' = [flow EXCEPT ![h] = "closed"]
    /\ wrote' = [wrote EXCEPT ![h] = {}] /\ sent' = [sent EXCEPT ![h] = {}]
    /\ UNCHANGED deaths

\* files are uploaded, or removed
Settle == UNCHANGED <<wrote, sent, file, flow, deaths>> /\ due' \in SUBSET Files

\* the process dies: what was written is in the local copies, and no handle is left
Die ==
    /\ deaths' = deaths + 1
    /\ file' = [h \in Handles |-> NoFile] /\ flow' = [h \in Handles |-> "closed"]
    /\ wrote' = [h \in Handles |-> {}] /\ sent' = [h \in Handles |-> {}]
    /\ UNCHANGED due

WBNext ==
    \/ Settle \/ Die
    \/ \E h \in Handles :
         \/ \E f \in Files : Opened(h, f)
         \/ \E t \in Writes : Through(h, t) \/ Break(h, t) \/ Keep(h, t)
         \/ Released(h)

WBSpec == WBInit /\ [][WBNext]_wbVars
=============================================================================
