------------------------------ MODULE RedisKey ------------------------------
(***************************************************************************)
(* create_redis_key: every part is preceded by its length, so that a colon *)
(* inside a part is not taken for a separator.  A text is a sequence of    *)
(* characters; a part is made of a few Blocks of them, chosen to look like *)
(* separators and lengths.                                                 *)
(***************************************************************************)
EXTENDS Naturals, Sequences, SequencesExt

CONSTANTS
  Prefix,     \* the leading namespace
  Blocks,     \* texts that parts are made of
  MaxBlocks,  \* bound of the model: blocks in a part
  MaxParts    \* bound of the model: parts of a key (tenant_id, name)

Letters == UNION {{text[n] : n \in DOMAIN text} : text \in Blocks \cup {Prefix}}

ASSUME TextAssumption == Blocks \cup {Prefix} \subseteq Seq(Letters)

VARIABLES
  parts,      \* the parts taken so far
  pieces      \* the local list of the same name

keyVars == <<parts, pieces>>

Texts    == {FlattenSeq(blocks) : blocks \in BoundedSeq(Blocks, MaxBlocks)}
AllParts == BoundedSeq(Texts, MaxParts)

Digit == <<"1", "2", "3", "4", "5", "6", "7", "8", "9">>

\* str(n) of a length.
Decimal[n \in Nat] ==
  IF n = 0 THEN <<"0">>
  ELSE IF n < 10 THEN <<Digit[n]>>
  ELSE Decimal[n \div 10] \o IF n % 10 = 0 THEN <<"0">> ELSE <<Digit[n % 10]>>

\* ":".join(pieces)
Join(ps) == Tail(FlattenSeq([n \in 1..Len(ps) |-> <<":">> \o ps[n]]))

\* Mutated form of PiecesOf: the lengths are left out.
PiecesWithoutLength(part) == <<part>>

PiecesOf(part) == <<Decimal[Len(part)], part>>

KeyInit ==
  /\ parts = <<>>
  /\ pieces = <<Prefix>>

\* One turn of the loop; the bound is for the model.
AppendPart(part) ==
  /\ Len(parts) < MaxParts
  /\ parts' = Append(parts, part)
  /\ pieces' = pieces \o PiecesOf(part)

KeyNext == \E part \in Texts : AppendPart(part)

KeySpec == KeyInit /\ [][KeyNext]_keyVars

-----------------------------------------------------------------------------
\* The key of other parts, built at once.
KeyOf(ps) ==
  Join(<<Prefix>> \o FlattenSeq([n \in 1..Len(ps) |-> PiecesOf(ps[n])]))

\* Two lists of parts never have the same key: no flag of one tenant is cached
\* under the key of another's, whatever colons and digits the two ids contain.
KeysDiffer ==
  parts # <<>> => \A other \in AllParts : KeyOf(other) = Join(pieces) => other = parts
=============================================================================
