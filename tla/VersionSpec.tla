---------------------------- MODULE VersionSpec ----------------------------
(***************************************************************************)
(* The Spec class of buildscripts/packager.py: what the packager derives   *)
(* from the --server-version string.  A version string is a sequence of    *)
(* one-character strings, so that the regular expressions and splits the   *)
(* code applies to it can be stated by what they do.  An optional integer  *)
(* argument (--release-number) is a sequence of length 0 (None) or 1.      *)
(***************************************************************************)
EXTENDS Integers, Sequences, SequencesExt

Digit == {"0", "1", "2", "3", "4", "5", "6", "7", "8", "9"}
DigitChar == <<"1", "2", "3", "4", "5", "6", "7", "8", "9">>
OddDigit == {"1", "3", "5", "7", "9"}

\* str(n) for an integer n
RECURSIVE NumStr(_)
NumStr(n) ==
  IF n < 0 THEN <<"-">> \o NumStr(-n)
  ELSE IF n < 10 THEN <<IF n = 0 THEN "0" ELSE DigitChar[n]>>
  ELSE NumStr(n \div 10) \o NumStr(n % 10)

\* re.search("-$", ver)
IsNightly(ver) == Len(ver) > 0 /\ Last(ver) = "-"

\* re.search("-rc\d+$", ver)
IsRc(ver) ==
  \E p \in 1..(Len(ver) - 3) :
     /\ SubSeq(ver, p, p + 2) = <<"-", "r", "c">>
     /\ \A i \in (p + 3)..Len(ver) : ver[i] \in Digit

IsPreRelease(ver) == IsRc(ver) \/ IsNightly(ver)

\* 'r' + version() unless --metadata-gitspec gave a non-empty revision
MetadataGitspec(ver, gitspec) ==
  IF gitspec # <<>> THEN gitspec ELSE <<"r">> \o ver

Dots(ver) == {i \in 1..Len(ver) : ver[i] = "."}

\* ".".join(ver.split(".")[0:2])
Branch(ver) ==
  IF Cardinality(Dots(ver)) < 2 THEN ver
  ELSE SubSeq(ver, 1, Min(Dots(ver) \ {Min(Dots(ver))}) - 1)

\* ver.split(".")[1], defined only when ver holds a "."
Minor(ver) ==
  LET d1 == Min(Dots(ver))
      rest == {i \in Dots(ver) : i > d1}
      end == IF rest = {} THEN Len(ver) + 1 ELSE Min(rest)
  IN SubSeq(ver, d1 + 1, end - 1)

\* int(s) succeeds: an optional sign followed by at least one digit
IntParses(s) ==
  LET body == IF Len(s) > 0 /\ s[1] \in {"-", "+"} THEN Tail(s) ELSE s
  IN Len(body) > 0 /\ \A i \in 1..Len(body) : body[i] \in Digit

\* suffix() raises (IndexError or ValueError) unless this holds
SuffixDefined(ver) == Dots(ver) # {} /\ IntParses(Minor(ver))

\* int(minor) % 2 == 0 ? "-org" : "-org-unstable"; the parity of an integer
\* is the parity of its last digit, whatever its sign
Suffix(ver) ==
  IF Last(Minor(ver)) \in OddDigit THEN "-org-unstable" ELSE "-org"

\* everything after the last "-", re.sub('.*-', '', ver)
AfterLastDash(ver) ==
  SubSeq(ver, SelectLastInSeq(ver, LAMBDA c : c = "-") + 1, Len(ver))

\* prelease(): "N" for a release, "0.N.rcX" for an RC, "0.N.<date>" for a
\* nightly, where N is --release-number when it is truthy and 1 otherwise
Prelease(ver, rel, date) ==
  LET corenum == IF rel = <<>> \/ rel = <<0>> THEN <<"1">> ELSE NumStr(rel[1])
  IN IF IsRc(ver) THEN <<"0", ".">> \o corenum \o <<".">> \o AfterLastDash(ver)
     ELSE IF IsNightly(ver) THEN <<"0", ".">> \o corenum \o <<".">> \o date
     ELSE corenum

\* pversion(): dashes become "~" for Debian, and RPM drops the first dash
\* and everything after it
PVersion(ver, family) ==
  IF family = "deb" THEN ReplaceAll(ver, "-", "~")
  ELSE LET d == SelectInSeq(ver, LAMBDA c : c = "-")
       IN IF d = 0 THEN ver ELSE SubSeq(ver, 1, d - 1)

=============================================================================
