----------------------------- MODULE NameMatch ------------------------------
(***************************************************************************)
(* The name matching of FlexBuff chunks in src/evlbi5a/libvbs.cc: escape   *)
(* (a port of Python's re.escape) and the isRecordingChunk predicate,      *)
(* which compiles ^escape(rec)\.[0-9]{8}$ and applies it to a directory    *)
(* entry, and the chunk number filechunk_type reads from the name.         *)
(*                                                                         *)
(* A string is a sequence of one-character strings.  The regular          *)
(* expression is compiled and matched the way the POSIX matcher of the     *)
(* build (glibc regcomp/regexec, extended syntax) treats the constructs     *)
(* this pattern can contain: anchors, literals, a backslash escape, ".",  *)
(* the class [0-9] and the interval {8}.  glibc reads the escapes \< and   *)
(* \> as word-boundary anchors and \` and \' as buffer anchors (GNU        *)
(* operators); every other escaped character stands for itself.           *)
(***************************************************************************)
EXTENDS Integers, Sequences
LOCAL INSTANCE SequencesExt

CONSTANTS
    Alphabet,    \* the characters recording names are made of
    MaxBaseLen   \* longest base name of a candidate directory entry;
                 \* recording names are one shorter

ASSUME MaxBaseLen \in Nat \ {0, 1}

DigitChars == <<"0", "1", "2", "3", "4", "5", "6", "7", "8", "9">>
Digits == {DigitChars[k] : k \in 1..10}
DigitVal == [d \in Digits |-> CHOOSE v \in 0..9 : DigitChars[v + 1] = d]

(* alphanum_str: the characters escape leaves alone.                      *)
Alnum == Digits \cup {"_",
           "a", "b", "c", "d", "e", "f", "g", "h", "i", "j", "k", "l", "m",
           "n", "o", "p", "q", "r", "s", "t", "u", "v", "w", "x", "y", "z",
           "A", "B", "C", "D", "E", "F", "G", "H", "I", "J", "K", "L", "M",
           "N", "O", "P", "Q", "R", "S", "T", "U", "V", "W", "X", "Y", "Z"}

(* Seeded fault: the name put into the pattern unescaped.                  *)
EscapeNothing(s) == s

(* escape(s): a backslash before every character not in alphanum_str.    *)
Escape(s) ==
    FlattenSeq([i \in DOMAIN s |-> IF s[i] \in Alnum THEN <<s[i]>> ELSE <<"\\", s[i]>>])

(* The pattern isRecordingChunk(recname) compiles.                         *)
ChunkPattern(rec) ==
    <<"^">> \o Escape(rec) \o <<"\\", ".", "[", "0", "-", "9", "]", "{", "8", "}", "$">>

(***************************************************************************)
(* regcomp: the pattern as a sequence of atoms, each matching one          *)
(* character (a set of them) or asserting something of a position.        *)
(***************************************************************************)
Lit(c) == [op |-> "char", set |-> {c}]

(* The backquote character (a TLA+ string cannot hold it).                 *)
Backquote == "grave"

EscapedAtom(c) ==
    CASE c = "<" -> [op |-> "wordbeg"]
      [] c = ">" -> [op |-> "wordend"]
      [] c = Backquote -> [op |-> "bol"]
      [] c = "'" -> [op |-> "eol"]
      [] OTHER -> Lit(c)

(* The first atom of p and how many pattern characters it takes.           *)
FirstAtom(p) ==
    CASE p[1] = "\\" -> [atom |-> EscapedAtom(p[2]), len |-> 2]
      [] p[1] = "["  -> [atom |-> [op |-> "char",
                                   set |-> {d \in Digits : DigitVal[p[2]] <= DigitVal[d]
                                                           /\ DigitVal[d] <= DigitVal[p[4]]}],
                         len |-> 5]
      [] p[1] = "^"  -> [atom |-> [op |-> "bol"], len |-> 1]
      [] p[1] = "$"  -> [atom |-> [op |-> "eol"], len |-> 1]
      [] p[1] = "."  -> [atom |-> [op |-> "any"], len |-> 1]
      [] OTHER       -> [atom |-> Lit(p[1]), len |-> 1]

(* An atom followed by {n} stands for n copies of it.                      *)
RECURSIVE Compile(_)
Compile(p) ==
    IF p = <<>> THEN <<>>
    ELSE LET a    == FirstAtom(p)
             rest == SubSeq(p, a.len + 1, Len(p))
             rep  == rest # <<>> /\ rest[1] = "{"
         IN  [i \in 1..(IF rep THEN DigitVal[rest[2]] ELSE 1) |-> a.atom]
             \o Compile(IF rep THEN SubSeq(rest, 4, Len(rest)) ELSE rest)

(* A word character of the GNU anchors: alphanumeric or underscore.        *)
WordAt(s, k) == k \in DOMAIN s /\ s[k] \in Alnum

(* The atoms as match s from position i on (Len(s) + 1 is the end).       *)
RECURSIVE MatchAt(_, _, _)
MatchAt(as, s, i) ==
    IF as = <<>> THEN TRUE
    ELSE LET a == Head(as) IN
         CASE a.op = "char"    -> i <= Len(s) /\ s[i] \in a.set /\ MatchAt(Tail(as), s, i + 1)
           [] a.op = "any"     -> i <= Len(s) /\ MatchAt(Tail(as), s, i + 1)
           [] a.op = "bol"     -> i = 1 /\ MatchAt(Tail(as), s, i)
           [] a.op = "eol"     -> i = Len(s) + 1 /\ MatchAt(Tail(as), s, i)
           [] a.op = "wordbeg" -> ~WordAt(s, i - 1) /\ WordAt(s, i) /\ MatchAt(Tail(as), s, i)
           [] a.op = "wordend" -> WordAt(s, i - 1) /\ ~WordAt(s, i) /\ MatchAt(Tail(as), s, i)

(* regexec: a match starting anywhere in the entry.                        *)
Matches(p, s) == \E i \in 1..Len(s) + 1 : MatchAt(Compile(p), s, i)

(* isRecordingChunk(rec)(entry)                                            *)
IsRecordingChunk(rec, entry) == Matches(ChunkPattern(rec), entry)

(* filechunk_type(fnm): strtoul(3), base 10, of what follows the last dot. *)
ChunkNumber(name) ==
    LET dot == CHOOSE k \in DOMAIN name : name[k] = "." /\ \A j \in k + 1..Len(name) : name[j] # "."
    IN  FoldLeft(LAMBDA v, d : 10 * v + DigitVal[d], 0, SubSeq(name, dot + 1, Len(name)))

-----------------------------------------------------------------------------
(* What the pattern is meant to accept: rec, a dot and eight digits.       *)
IsChunkNameOf(rec, entry) ==
    /\ Len(entry) = Len(rec) + 9
    /\ SubSeq(entry, 1, Len(rec)) = rec
    /\ entry[Len(rec) + 1] = "."
    /\ \A k \in Len(rec) + 2..Len(entry) : entry[k] \in Digits

(* Recording names vbs_open accepts (not empty), and directory entries:   *)
(* a base name, a dot and a suffix of eight digits or one too few, one too *)
(* many, or a non-digit at the end.                                        *)
RecNames == BoundedSeq(Alphabet, MaxBaseLen - 1) \ {<<>>}
Tails == {<<"0", "0", "0", "0", "0", "0", "0", "7">>, <<"0", "0", "0", "0", "0", "0", "7">>,
             <<"0", "0", "0", "0", "0", "0", "0", "7", "0">>, <<"0", "0", "0", "0", "0", "0", "0", "a">>}
Candidates == {b \o <<".">> \o x : b \in BoundedSeq(Alphabet, MaxBaseLen), x \in Tails}

(* isRecordingChunk(rec) accepts exactly the names meant for it.          *)
MatchesExactly(rec) ==
    \A e \in Candidates : IsRecordingChunk(rec, e) <=> IsChunkNameOf(rec, e)

=============================================================================
