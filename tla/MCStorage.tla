------------------------------ MODULE MCStorage ------------------------------
(* Small instances of Storage: two mirrors of area 3 and one other server,   *)
(* with the clients that matter to each other.                               *)
EXTENDS StorageProperties

CONSTANTS s1, s2, s3

Load3(one, two, three) == [s \in Servers |->
    CASE s = s1 -> one [] s = s2 -> two [] s = s3 -> three]

\* Two writers of the clans, a writer and a reader; two pent areas; clients
\* that share the slots of a server.
SmallLoads == {
    Load3({"clan"}, {"clan"}, {}), Load3({"clan"}, {}, {"clan"}),
    Load3({"pent"}, {"pent"}, {}),
    Load3({"clan", "pent"}, {}, {}), Load3({"clan", "master"}, {}, {})}
=============================================================================
