----------------------------- MODULE ConfigUtil -----------------------------
(***************************************************************************)
(* What every configuration file is checked for before its values are      *)
(* (common/include/config_util.h).  A document has a value for every key   *)
(* that its driver reads, the default where the file is silent, and under  *)
(* `file` what is wrong with the text it came from:                        *)
(*    loads     it can be read and is YAML;                                *)
(*    foreign   keys that their block does not accept, or that are no      *)
(*              mapping or list where one is due;                          *)
(*    missing   required keys without a value;                             *)
(*    mistyped  keys whose value does not convert: to a number within its  *)
(*              type's width, not negative for an unsigned one, finite for *)
(*              a floating one; to a Boolean.                              *)
(* An error names a key, and there is no order between errors.             *)
(***************************************************************************)

EXTENDS Integers

LoadFile(file) == file.loads

CheckKeys(file) == file.foreign = {}

Require(file) == file.missing = {}

Convert(file) == file.mistyped = {}

ReadRange(value, lo, hi) == lo <= value /\ value <= hi

ReadText(text) == text # ""

WellFormed(file) == LoadFile(file) /\ CheckKeys(file) /\ Require(file) /\ Convert(file)

CleanFile == [loads |-> TRUE, foreign |-> {}, missing |-> {}, mistyped |-> {}]
=============================================================================
