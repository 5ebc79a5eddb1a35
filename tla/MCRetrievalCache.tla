-------------------------- MODULE MCRetrievalCache --------------------------
(* The retrieval cache on a small instance.                                *)
(*                                                                         *)
(* Three filters on the language: none, the one the Documents carry, and   *)
(* the same in capitals as a plan may infer it, which admits no Document   *)
(* and has the key of the second.                                          *)
EXTENDS RetrievalCache, TLC

CONSTANTS d1, d2, anything, language, capitals

AdmittedBy == (anything :> {d1, d2}) @@ (language :> {d1}) @@ (capitals :> {})
NormalizedBy == (anything :> anything) @@ (language :> language) @@ (capitals :> language)
Interchangeable == Permutations(Turns)
=============================================================================
