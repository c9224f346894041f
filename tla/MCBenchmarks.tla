---------------------------- MODULE MCBenchmarks ----------------------------
(***************************************************************************)
(* The benchmarks for TLC; a behaviour runs one of them.  CoreMark: the    *)
(* parameters core_main.c knows at 2K and the profile size, and many seeds *)
(* on a small block, with an odd number of find rounds, where the list is  *)
(* left reversed.  Dhrystone: several numbers of runs, 100 as in the       *)
(* source, and two contents of an uninitialised record.                    *)
(***************************************************************************)
EXTENDS CoreMark, Dhrystone

Build(s1, s2, s3, total, n) ==
    [seed1 |-> s1, seed2 |-> s2, seed3 |-> s3, total |-> total, iterations |-> n]

MCBuilds == {Build(0, 0, 102, 2000, 1), Build(1, 0, 0, 2000, 1), Build(8, 8, 8, 1200, 2)}
            \cup {Build(s, s, 33, 615, 1) : s \in 0 .. 31}
            \cup {Build(s, s, 102, 2000, 1) : s \in {5, 7}}
            \cup {Build(s, s + 1, 33, 615, 1) : s \in {20, 300}}

MCRuns == {1, 2, 7, 100}
MCJunk == {[Ptr_Comp |-> "null", Discr |-> 0, Enum_Comp |-> 0, Int_Comp |-> 0, Str_Comp |-> 1],
           [Ptr_Comp |-> "glob", Discr |-> 4, Enum_Comp |-> 3, Int_Comp |-> -1, Str_Comp |-> 4]}

CoreMarkOff ==
    /\ build = Build(0, 0, 0, 0, 0) /\ pc = "off" /\ iter = 0
    /\ res = <<>> /\ heap = <<>> /\ loc = <<>> /\ start = <<>> /\ verdict = <<>>

DhrystoneOff ==
    dpc = "off" /\ runs = 0 /\ index = 0 /\ g = <<>> /\ recs = <<>> /\ l = <<>>

MCInit == (Init /\ DhrystoneOff) \/ (DInit /\ CoreMarkOff)
MCNext == (Next /\ UNCHANGED dvars) \/ (DNext /\ UNCHANGED vars)
MCSpec == MCInit /\ [][MCNext]_<<vars, dvars>>
=============================================================================
