--------------------------- MODULE UploadContract ---------------------------
(***************************************************************************)
(* What the upload of a file promises the one who uploads it: the file is  *)
(* handed over for processing at most once and as it was sent, and only    *)
(* then the dialog reports success.  Where the network delivers a request  *)
(* of an upload twice, nothing is promised but the order of the two.       *)
(***************************************************************************)
CONSTANTS
    Uploads,
    File         \* what the user sends, as a sequence of chunks

VARIABLES
    jobs,        \* jobs[u]: the contents of the jobs made of upload u
    told,        \* uploads reported as successful
    repeated     \* uploads of which a request was delivered twice

vars == <<jobs, told, repeated>>

Init ==
    /\ jobs = [u \in Uploads |-> <<>>]
    /\ told = {} /\ repeated = {}

HandOver(u) ==
    /\ IF u \in repeated
       THEN /\ \A v \in Uploads \ {u} : jobs'[v] = jobs[v]
            /\ DOMAIN jobs' = Uploads
       ELSE jobs[u] = <<>> /\ jobs' = [jobs EXCEPT ![u] = <<File[u]>>]
    /\ UNCHANGED <<told, repeated>>

Report(u) ==
    /\ jobs[u] # <<>>
    /\ told' = told \cup {u}
    /\ UNCHANGED <<jobs, repeated>>

Repeat(u) ==
    /\ repeated' = repeated \cup {u}
    /\ UNCHANGED <<jobs, told>>

Next == \E u \in Uploads : HandOver(u) \/ Report(u) \/ Repeat(u)

Spec == Init /\ [][Next]_vars

=============================================================================
