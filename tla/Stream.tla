------------------------------- MODULE Stream -------------------------------
(***************************************************************************)
(* stream.c: kernels over three arrays of doubles.  Each iteration of a    *)
(* kernel goes through all elements with its own names a, b, c for the     *)
(* arrays, and the state rotates the names for the next iteration.         *)
(***************************************************************************)
EXTENDS Naturals, FiniteSets

\* Which arrays an element is read from and written to.
Body(reads, writes) == [reads |-> reads, writes |-> writes]

copy == Body({"a"}, {"c"})
scale == Body({"c"}, {"b"})
triad == Body({"b", "c"}, {"a"})
fill == Body({}, {"a"})

\* Mutant of daxpy: the old value of a is not read.
daxpyOverwrites == Body({"b"}, {"a"})

daxpy == Body({"a", "b"}, {"a"})
sum == Body({"a"}, {})

\* Mutant of rotated: one array loses its name.
rotatedTwice(state) == [a |-> state.b, b |-> state.c, c |-> state.c]

\* The rotation at the start of BODY.
rotated(state) == [a |-> state.b, b |-> state.c, c |-> state.a]

initialize == [a |-> "a", b |-> "b", c |-> "c"]

cleanup(state) == {state.a, state.b, state.c}

\* The name printed for each kernel main runs, and how many doubles per
\* element it credits.  What is printed as the add of version 1 is sum.
main ==
    [STREAM_copy |-> [body |-> copy, credit |-> 2],
     STREAM_scale |-> [body |-> scale, credit |-> 2],
     STREAM_add |-> [body |-> sum, credit |-> 3],
     STREAM_triad |-> [body |-> triad, credit |-> 3],
     STREAM2_fill |-> [body |-> fill, credit |-> 1],
     STREAM2_copy |-> [body |-> copy, credit |-> 2],
     STREAM2_daxpy |-> [body |-> daxpy, credit |-> 3],
     STREAM2_sum |-> [body |-> sum, credit |-> 1]]
=============================================================================
