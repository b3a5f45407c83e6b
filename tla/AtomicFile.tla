------------------------------ MODULE AtomicFile ------------------------------
(***************************************************************************)
(* What the write functions of internal/safeio promise to those who read   *)
(* the file.  Most writers change it in one step, from one whole content   *)
(* to their own.  Writers InPlace (WriteFileCreatingParentsIfAbsent, and   *)
(* WriteFileCreatingParentsWithPermissionFallback in a directory that      *)
(* refuses new files) expose an incomplete file first.                     *)
(***************************************************************************)
CONSTANTS
    Writer,   \* calls, and the content each one writes
    IfAbsent, \* calls that must not replace a file
    InPlace,  \* calls that may write into the visible file
    None,     \* no file
    Old, Foreign, \* what is there before, what somebody else writes
    Torn      \* an incomplete content, or a mixture

VARIABLES
    file,  \* the content at the path
    st     \* progress of each call

Init ==
    /\ file \in {None, Old}
    /\ st = [w \in Writer |-> "called"]

\* The content changes at once.
Place(w) ==
    /\ st[w] = "called"
    /\ w \in IfAbsent => file = None
    /\ file' = w
    /\ st' = [st EXCEPT ![w] = "placed"]

\* The call creates or empties the file; it may have lost the path meanwhile.
Open(w) ==
    /\ w \in InPlace /\ st[w] = "called"
    /\ w \in IfAbsent => file = None
    /\ file' \in {Torn, file}
    /\ st' = [st EXCEPT ![w] = "open"]

\* Two calls that write into one file can leave a mixture.
Fill(w) ==
    /\ w \in InPlace /\ st[w] = "open"
    /\ file' \in {w, file} \/ (file # Torn /\ file' = Torn)
    /\ st' = [st EXCEPT ![w] = "placed"]

\* A call that could not complete the file it created removes it.
Withdraw(w) ==
    /\ w \in InPlace \cap IfAbsent /\ st[w] = "open"
    /\ file' = None
    /\ st' = [st EXCEPT ![w] = "error"]

\* Success is only reported for a content that was placed.
Return(w, r) ==
    /\ st[w] = "placed" \/ (r = "error" /\ st[w] \in {"called", "open"})
    /\ st' = [st EXCEPT ![w] = r]
    /\ UNCHANGED file

Outside == file' \in {None, Foreign} /\ UNCHANGED st

Next ==
    \/ \E w \in Writer :
        \/ Place(w) \/ Open(w) \/ Fill(w) \/ Withdraw(w)
        \/ \E r \in {"ok", "error"} : Return(w, r)
    \/ Outside

Spec == Init /\ [][Next]_<<file, st>>
=============================================================================
