----------------------------- MODULE Dhrystone -----------------------------
(***************************************************************************)
(* The Dhrystone benchmark (dhry_1.c, dhry_2.c, dhry.h).  The globals are a*)
(* record g, the two records on the heap a function of their pointers, and *)
(* every procedure is an operator from the values it reads to those it     *)
(* leaves.  Enumerations are numbers as under NOENUM, characters their     *)
(* codes.  The four strings are numbered in the order of strcmp; they      *)
(* differ in the ordinal behind "DHRYSTONE PROGRAM, " only.  The variants  *)
(* var_2 and var_3 of a record are never used; time measurement and the    *)
(* figures computed from it are left out.                                  *)
(***************************************************************************)
EXTENDS Integers

CONSTANTS
    Runs,        \* values of Number_Of_Runs to try; the program has 100
    Junk         \* what a record that malloc returns may hold

VARIABLES
    dpc,         \* what the main loop does next
    runs,        \* Number_Of_Runs
    index,       \* Run_Index
    g,           \* the globals
    recs,        \* the records of Ptr_Glob ("glob") and Next_Ptr_Glob ("next")
    l            \* the locals of main

dvars == <<dpc, runs, index, g, recs, l>>

Ident_1 == 0
Ident_2 == 1
Ident_3 == 2
Ident_4 == 3
Ident_5 == 4
Ident == {Ident_1, Ident_2, Ident_3, Ident_4, Ident_5}

A == 65
B == 66
C == 67

\* Rec_Type with variant var_1
RecType == [Ptr_Comp : {"glob", "next", "null"}, Discr : Ident, Enum_Comp : Ident,
            Int_Comp : Int, Str_Comp : 1 .. 4]

ASSUME DhrystoneAssumption == Runs \subseteq Nat \ {0} /\ Junk \subseteq RecType

STR_1 == 1      \* "DHRYSTONE PROGRAM, 1'ST STRING"
STR_2 == 2
STR_3 == 3
STR_SOME == 4   \* "DHRYSTONE PROGRAM, SOME STRING"
CharAt(s, i) == IF i = 2 THEN 82 ELSE 89    \* 'R' and 'Y', the two that are read

-----------------------------------------------------------------------------
(* Procedures.                                                             *)

Func_3(e) == e = Ident_3

Proc_6(e, intGlob) ==
    CASE e = Ident_1 -> Ident_1
      [] e = Ident_2 -> IF intGlob > 100 THEN Ident_1 ELSE Ident_4
      [] e = Ident_3 -> Ident_2
      [] e = Ident_4 -> IF Func_3(e) THEN e ELSE Ident_4
      [] e = Ident_5 -> Ident_3

Proc_7(a, b) == b + (a + 2)

\* The value returned, and the new Ch_1_Glob.
Func_1(c1, c2, ch1) == IF c1 # c2 THEN <<Ident_1, ch1>> ELSE <<Ident_2, c1>>

\* The loop of Func_2 ends only when the two letters differ; with Ch_Loc 'A'
\* then, strcmp decides.  If the first string is greater, Int_Glob becomes 10.
Func_2Ends(s1, s2) == Func_1(CharAt(s1, 2), CharAt(s2, 3), A)[1] = Ident_1
Func_2(s1, s2) == s1 > s2

Proc_8(q, i, v) ==
    LET loc  == i + 5
        arr1 == [q.Arr_1 EXCEPT ![loc] = v, ![loc + 1] = v, ![loc + 30] = loc]
        arr2 == [q.Arr_2 EXCEPT ![<<loc, loc>>] = loc, ![<<loc, loc + 1>>] = loc,
                                ![<<loc, loc - 1>>] = @ + 1, ![<<loc + 20, loc>>] = v]
    IN  [q EXCEPT !.Arr_1 = arr1, !.Arr_2 = arr2, !.Int_Glob = 5]

\* Proc_5 and then Proc_4.
Proc_5(q) == [q EXCEPT !.Ch_1_Glob = A, !.Bool_Glob = FALSE]
Proc_4(q) == [q EXCEPT !.Bool_Glob = (q.Ch_1_Glob = A) \/ @, !.Ch_2_Glob = B]

\* Called with the address of the pointer of record p.
Proc_3(h, p, intGlob) ==
    LET h1 == [h EXCEPT ![p].Ptr_Comp = h["glob"].Ptr_Comp]
    IN  [h1 EXCEPT !["glob"].Int_Comp = Proc_7(10, intGlob)]

\* Faulty variant: the record of Ptr_Glob is not copied.
Proc_1_nocopy(h, intGlob) ==
    LET next == h["glob"].Ptr_Comp
        h1 == [h EXCEPT !["glob"].Int_Comp = 5, ![next].Ptr_Comp = next]
        h2 == Proc_3(h1, next, intGlob)
    IN  [h2 EXCEPT ![next].Int_Comp = Proc_7(6, 10),
                   ![next].Enum_Comp = Proc_6(h2["glob"].Enum_Comp, intGlob)]

\* Called with Ptr_Glob.
Proc_1(h, intGlob) ==
    LET next == h["glob"].Ptr_Comp
        h1 == [h EXCEPT ![next] = h["glob"]]
        h2 == [h1 EXCEPT !["glob"].Int_Comp = 5]
        h3 == [h2 EXCEPT ![next].Int_Comp = h2["glob"].Int_Comp, ![next].Ptr_Comp = h2["glob"].Ptr_Comp]
        h4 == Proc_3(h3, next, intGlob)
        h5 == [h4 EXCEPT ![next].Int_Comp = 6,
                         ![next].Enum_Comp = Proc_6(h4["glob"].Enum_Comp, intGlob),
                         ![next].Ptr_Comp = h4["glob"].Ptr_Comp]
    IN  IF h4[next].Discr = Ident_1
        THEN [h5 EXCEPT ![next].Int_Comp = Proc_7(h5[next].Int_Comp, 10)]
        ELSE [h4 EXCEPT !["glob"] = h4[h4["glob"].Ptr_Comp]]

\* Proc_2 loops for ever unless Ch_1_Glob is 'A'.
Proc_2(n, q) == (n + 10) - 1 - q.Int_Glob

-----------------------------------------------------------------------------
(* main.                                                                   *)

DInit ==
    /\ dpc = "run" /\ runs \in Runs /\ index = 1
    /\ g = [Int_Glob |-> 0, Bool_Glob |-> FALSE, Ch_1_Glob |-> 0, Ch_2_Glob |-> 0,
            Arr_1 |-> [i \in 0 .. 49 |-> 0],
            Arr_2 |-> [c \in (0 .. 49) \X (0 .. 49) |-> IF c = <<8, 7>> THEN 10 ELSE 0]]
    /\ \E junk \in Junk :
          recs = [p \in {"glob", "next"} |->
                    IF p = "next" THEN junk
                    ELSE [Ptr_Comp |-> "next", Discr |-> Ident_1, Enum_Comp |-> Ident_3,
                          Int_Comp |-> 40, Str_Comp |-> STR_SOME]]
    /\ l = [i1 |-> 0, i2 |-> 0, i3 |-> 0, enum |-> 0, ch |-> 0, str1 |-> STR_1, str2 |-> 0]

\* Beginning of a run, up to the while loop.
BeginRun ==
    /\ dpc = "run" /\ index <= runs /\ Func_2Ends(l.str1, STR_2)
    /\ dpc' = "while"
    /\ LET greater == Func_2(l.str1, STR_2)
       IN  g' = [Proc_4(Proc_5(g)) EXCEPT !.Bool_Glob = ~greater,
                                          !.Int_Glob = IF greater THEN 10 ELSE @]
    /\ l' = [l EXCEPT !.i1 = 2, !.i2 = 3, !.str2 = STR_2, !.enum = Ident_2]
    /\ UNCHANGED <<runs, index, recs>>

While ==
    /\ dpc = "while"
    /\ IF l.i1 < l.i2
       THEN dpc' = "while" /\ l' = [l EXCEPT !.i3 = Proc_7(l.i1, l.i2), !.i1 = @ + 1]
       ELSE dpc' = "procs" /\ l' = l
    /\ UNCHANGED <<runs, index, g, recs>>

\* Proc_8 and Proc_1, and the start of the loop over the letters.
Procs ==
    /\ dpc = "procs"
    /\ dpc' = "letters"
    /\ g' = Proc_8(g, l.i1, l.i3)
    /\ recs' = Proc_1(recs, g'.Int_Glob)
    /\ l' = [l EXCEPT !.ch = A]
    /\ UNCHANGED <<runs, index>>

\* One letter; the branch taken when Func_1 returns Ident_2 calls Proc_6.
Letter ==
    LET f == Func_1(l.ch, C, g.Ch_1_Glob)
        same == l.enum = f[1]
    IN  /\ dpc = "letters" /\ l.ch <= g.Ch_2_Glob
        /\ g' = [g EXCEPT !.Ch_1_Glob = f[2], !.Int_Glob = IF same THEN index ELSE @]
        /\ l' = [l EXCEPT !.ch = @ + 1,
                          !.enum = IF same THEN Proc_6(Ident_1, g.Int_Glob) ELSE @,
                          !.str2 = IF same THEN STR_3 ELSE @,
                          !.i2 = IF same THEN index ELSE @]
        /\ UNCHANGED <<dpc, runs, index, recs>>

\* The end of a run; C divides towards zero.
EndRun ==
    /\ dpc = "letters" /\ l.ch > g.Ch_2_Glob /\ g.Ch_1_Glob = A
    /\ LET prod == l.i2 * l.i1
           quot == prod \div l.i3
       IN  l' = [l EXCEPT !.i1 = Proc_2(quot, g), !.i2 = 7 * (prod - l.i3) - quot]
    /\ dpc' = "run" /\ index' = index + 1
    /\ UNCHANGED <<runs, g, recs>>

\* The values are printed and main returns.
Results ==
    /\ dpc = "run" /\ index > runs
    /\ dpc' = "printed"
    /\ UNCHANGED <<runs, index, g, recs, l>>

Ended == dpc = "printed" /\ UNCHANGED dvars

DNext == BeginRun \/ While \/ Procs \/ Letter \/ EndRun \/ Results \/ Ended

DSpec == DInit /\ [][DNext]_dvars

-----------------------------------------------------------------------------
\* At the end every variable has the value that main prints behind "should
\* be:", after any number of runs and whatever the second record held.
ShouldBe ==
    dpc = "printed" =>
        /\ g.Int_Glob = 5 /\ g.Bool_Glob /\ g.Ch_1_Glob = A /\ g.Ch_2_Glob = B
        /\ g.Arr_1[8] = 7 /\ g.Arr_2[<<8, 7>>] = runs + 10
        /\ recs["glob"] = [Ptr_Comp |-> "next", Discr |-> 0, Enum_Comp |-> 2,
                           Int_Comp |-> 17, Str_Comp |-> STR_SOME]
        /\ recs["next"] = [Ptr_Comp |-> recs["glob"].Ptr_Comp, Discr |-> 0, Enum_Comp |-> 1,
                           Int_Comp |-> 18, Str_Comp |-> STR_SOME]
        /\ l.i1 = 5 /\ l.i2 = 13 /\ l.i3 = 7 /\ l.enum = 1
        /\ l.str1 = STR_1 /\ l.str2 = STR_2

=============================================================================
