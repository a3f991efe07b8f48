------------------------ MODULE MCBatchingCommitter ------------------------
(***************************************************************************)
(* Small instances of BatchingCommitter: windows of up to two exports, and *)
(* sizes that make the byte limits bind as well as the counts.             *)
(***************************************************************************)
EXTENDS BatchingCommitter

CONSTANTS small, middle, large, huge   \* the calls, named for their sizes

\* Against WindowBytes = 3 and AdmissionBytes = 4: small and middle share a
\* window, small and large do not, middle and large are not admitted together,
\* and no window holds huge.
MCBytes == [r \in Requests |->
    CASE r = small -> 1 [] r = middle -> 2 [] r = large -> 3 [] OTHER -> 4]
=============================================================================
