------------------------------- MODULE MCHash -------------------------------
(* An instance of HashFiles: a project of four files in three directories.  *)
EXTENDS HashFiles, TLC

CONSTANTS toolchain, manifest, lib, built, dot, src, target, short, long

Tree == dot :> {toolchain, manifest, src, target} @@ src :> {lib} @@ target :> {built}
PathOrder == manifest :> 1 @@ toolchain :> 2 @@ lib :> 3 @@ built :> 4
Lengths == short :> 1 @@ long :> 2

\* No patterns; one; one that is spelled without "./"; one that names the
\* toolchain file; one for build output.
PatternChoices ==
  {{}, {<<"./", lib>>}, {<<"", lib>>}, {<<"./", toolchain>>, <<"./", manifest>>},
   {<<"./", built>>}}

Whole == [f \in Files |-> short]
DiskChoices ==
  {Whole, [Whole EXCEPT ![lib] = Unreadable], [Whole EXCEPT ![toolchain] = Missing],
   [Whole EXCEPT ![manifest] = Missing]}
=============================================================================
