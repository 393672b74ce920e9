---------------------------- MODULE MCRankBetween ----------------------------
(* Instance of RankBetween: every pair of ranks of at most MaxLength digits. *)
EXTENDS RankBetween

CONSTANT MaxLength

MCArguments ==
  {s \in UNION {[1 .. n -> Digits] : n \in 0 .. MaxLength} : Canonical(s)}
=============================================================================
