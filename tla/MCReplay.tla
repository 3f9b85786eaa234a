------------------------------ MODULE MCReplay ------------------------------
(***************************************************************************)
(* Instances of Replay: contracts that use a few host functions each.      *)
(***************************************************************************)
EXTENDS Replay

\* One that compares its argument; one that unpacks the wrong variant; one that
\* no recorded step is named after, and whose recorded number is not readable.
Mixed == {"storage_cache_bytes32", "math_mul_mod", "log_i32"}

\* One that every table agrees about.
OnlyMath == {"math_div"}
=============================================================================
