---------------------------- MODULE MCDiskDrive -----------------------------
(***************************************************************************)
(* The instance of DiskDrive for TLC: two names and two files, so that a   *)
(* file can come to the name of another; two handles, that read and share  *)
(* reading, or write and delete and share reading and writing.  At one of  *)
(* the names directories are made as well.                                 *)
(***************************************************************************)
EXTENDS DiskDrive

CONSTANTS x, y

MCNames == {x, y}
MCRights == {[access |-> {"R"}, share |-> {"R"}],
             [access |-> {"W", "D"}, share |-> {"R", "W"}]}
MCOpens ==
    {[name |-> y, kind |-> "any", access |-> rights.access, share |-> rights.share] :
        rights \in MCRights}
    \cup
    {[name |-> x, kind |-> "directory", access |-> {"R"}, share |-> {"R", "W"}]}
    \cup
    {[name |-> y, kind |-> "file", access |-> {"R"}, share |-> {"R", "W"}]}
    \cup
    {[name |-> name, kind |-> "any", access |-> {"R"}, share |-> {"R", "W"}] :
        name \in {Root, x}}
=============================================================================
