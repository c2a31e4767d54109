----------------------------- MODULE MCValidate -----------------------------
(***************************************************************************)
(* An instance of Validate for TLC: one predicate with one program.  The   *)
(* keys, of two binary words: 00 registers the predicate, 01 holds it, 10  *)
(* holds the program, 11 is other state.  Solutions for other predicates,  *)
(* which are always in order, are left out.                                *)
(***************************************************************************)
EXTENDS Validate, TLC

CONSTANTS thePredicate, theProgram, mark, pred, code, bad, written

\* Stores the program.
Program == <<1, 0>> :> code

\* Registers the predicate, which it solves itself.
Deploy == (<<0, 0>> :> mark) @@ (<<0, 1>> :> pred)

\* Writes state, after checking that nobody did before.
Use == <<1, 1>> :> written

\* Spoils the program and empties the registration.
Spoil == (<<0, 0>> :> Empty) @@ (<<1, 0>> :> bad)

\* Spoils the predicate.
Break == <<0, 1>> :> Empty

MCSolutionSets == {Program, Deploy, Use, Spoil, Break}

MCSolves == [s \in MCSolutionSets |-> IF s \in {Program, Break} THEN << >> ELSE <<thePredicate>>]

MCRegistered == thePredicate :> <<0, 0>>
MCEncoded == thePredicate :> <<0, 1>>
MCStored == theProgram :> <<1, 0>>
MCNodes == pred :> {theProgram}
MCCodes == {code}

MCExpects ==
    [s \in MCSolutionSets |-> IF s = Use THEN <<1, 1>> :> Unset ELSE << >>]

MCGasOf == [s \in MCSolutionSets |-> IF s = Deploy THEN 2 ELSE 1]
=============================================================================
