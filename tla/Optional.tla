------------------------------ MODULE Optional ------------------------------
(***************************************************************************)
(* Python's None: what is not given, not found or not set.                 *)
(***************************************************************************)
EXTENDS Sequences, FiniteSetsExt

CONSTANT None

Given(x) == x # None

FirstGiven(x, y) == IF Given(x) THEN x ELSE y

\* The first of a sequence of answers that is one.
FirstKnown(answers) ==
  LET known == {i \in DOMAIN answers : Given(answers[i])}
  IN  IF known = {} THEN None ELSE answers[Min(known)]
=============================================================================
