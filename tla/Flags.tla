------------------------------- MODULE Flags --------------------------------
(***************************************************************************)
(* WiredTiger's dist/flags.py: give every flag name a bit so that no two   *)
(* flags used by one method share a bit, then rewrite the flags section of *)
(* flags.h.  The script runs once, top to bottom; the model takes one step *)
(* per iteration of each of its loops.                                     *)
(*                                                                         *)
(* A mask is the set of the indices of its one bits; a bit is its index.   *)
(* Python's string order on flag names, used by both sorts, is the         *)
(* constant NameOrder.  The iteration order of flags.items() is            *)
(* unspecified in Python 2 and is chosen from the constant Orders.         *)
(***************************************************************************)
EXTENDS Integers, Sequences, SequencesExt, FiniteSets

CONSTANTS
  Methods,    \* the keys of the flags dictionary
  Flags,      \* the flag names, "__NONE__" excluded
  Tables,     \* the flags dictionaries to run on: [Methods -> Seq(names)]
  Orders,     \* the possible iteration orders of flags.items()
  NameOrder,  \* every name of Flags once, in Python's string order
  Width,      \* the length of bits: 32 in the code
  Headers     \* the flags.h files to rewrite: sequences of lines

NONE == "__NONE__"

\* a line of flags.h: whether it contains the BEGIN and the END marker
Line == [begin : BOOLEAN, end : BOOLEAN]

ASSUME /\ Width \in Nat \ {0}
       /\ Tables \subseteq [Methods -> Seq(Flags \cup {NONE})]
       /\ \A o \in Orders : o \in SetToSeqs(Methods)
       /\ NameOrder \in SetToSeqs(Flags)
       /\ Headers \subseteq Seq(Line)

VARIABLES
  table, order, header,  \* the inputs of this run
  phase,       \* "build", "alloc", "rewrite", "done" or "exit"
  mi, fi,      \* position in order and in the method's list; fi = 0 before
               \* name_mask[method] is reset
  flag_cnt,    \* flag -> reference count, 0 when not a key
  flag_name,   \* flag -> the methods using it, in the order they were seen
  name_mask,   \* method -> the bits used by its flags
  flag_bit,    \* flag -> its bit, or NoBit
  exit_method, \* the method named by "ran out of flags at ... method"
  flag_info,   \* flag -> bit, the #define lines written into flags.h
  li, skip,    \* the line of flags.h being read, and the skip flag
  out          \* the lines written to __tmp

vars == <<table, order, header, phase, mi, fi, flag_cnt, flag_name, name_mask,
          flag_bit, exit_method, flag_info, li, skip, out>>

NoBit == -1
NoMethod == "none"
Bits == 0..(Width - 1)

\* position of a name in Python's sort order
Rank(f) == CHOOSE k \in DOMAIN NameOrder : NameOrder[k] = f

\* what __tmp is made of: a line of flags.h, the comment closer written after
\* BEGIN, the #define block, and the comment opener written before END
Item == ({"line"} \X Nat) \cup {<<"open", 0>>, <<"info", 0>>, <<"close", 0>>}

Init ==
  /\ table \in Tables /\ order \in Orders /\ header = <<>>
  /\ phase = "build"
  /\ mi = 1 /\ fi = 0
  /\ flag_cnt = [f \in Flags |-> 0]
  /\ flag_name = [f \in Flags |-> <<>>]
  /\ name_mask = [m \in Methods |-> {}]
  /\ flag_bit = [f \in Flags |-> NoBit]
  /\ exit_method = NoMethod
  /\ flag_info = [f \in Flags |-> NoBit]
  /\ li = 1 /\ skip = FALSE /\ out = <<>>

Inputs == <<table, order, header>>
AllocVars == <<name_mask, flag_bit, exit_method, flag_info>>
RewriteVars == <<li, skip, out>>

-----------------------------------------------------------------------------
(* Step through the flags dictionary and build the local dictionaries.    *)

M == order[mi]

\* name_mask[method[0]] = 0x0
ResetMask ==
  /\ phase = "build" /\ mi <= Len(order) /\ fi = 0
  /\ name_mask' = [name_mask EXCEPT ![M] = {}]
  /\ fi' = 1
  /\ UNCHANGED <<Inputs, phase, mi, flag_cnt, flag_name, flag_bit, exit_method,
                 flag_info, RewriteVars>>

SkipNone ==
  /\ phase = "build" /\ mi <= Len(order) /\ fi \in 1..Len(table[M])
  /\ table[M][fi] = NONE
  /\ fi' = fi + 1
  /\ UNCHANGED <<Inputs, phase, mi, flag_cnt, flag_name, AllocVars, RewriteVars>>

\* the first sighting sets the count to 1 and the name list to []; the
\* model's 0 and <<>> for "not a key" make both branches one update
CountFlag ==
  /\ phase = "build" /\ mi <= Len(order) /\ fi \in 1..Len(table[M])
  /\ table[M][fi] # NONE
  /\ LET f == table[M][fi] IN
       /\ flag_cnt' = [flag_cnt EXCEPT ![f] = @ + 1]
       /\ flag_name' = [flag_name EXCEPT ![f] = Append(@, M)]
  /\ fi' = fi + 1
  /\ UNCHANGED <<Inputs, phase, mi, AllocVars, RewriteVars>>

NextMethod ==
  /\ phase = "build" /\ mi <= Len(order) /\ fi > Len(table[M])
  /\ mi' = mi + 1 /\ fi' = 0
  /\ UNCHANGED <<Inputs, phase, flag_cnt, flag_name, AllocVars, RewriteVars>>

BuildDone ==
  /\ phase = "build" /\ mi > Len(order)
  /\ phase' = "alloc"
  /\ UNCHANGED <<Inputs, mi, fi, flag_cnt, flag_name, AllocVars, RewriteVars>>

-----------------------------------------------------------------------------
(* Walk the flags by descending reference count, then by name, giving each *)
(* the lowest bit no method using it has taken.                            *)

Pending == {f \in Flags : flag_cnt[f] > 0 /\ flag_bit[f] = NoBit}

\* the head of sorted(flag_cnt.items(), key = (-count, name)) not yet done
NextFlag ==
  CHOOSE f \in Pending :
    \A g \in Pending \ {f} :
       \/ flag_cnt[g] < flag_cnt[f]
       \/ flag_cnt[g] = flag_cnt[f] /\ Rank(f) < Rank(g)

\* mutant: the mask of the first method using the flag only
FreeFirstMethod(f) == Bits \ name_mask[flag_name[f][1]]

\* mutant: a mask one bit too wide, mask = 0x1ffffffff with
\* bits = [2 ** i for i in range(0, 33)]
FreeWide(f) == (0..Width) \ UNION {name_mask[m] : m \in Range(flag_name[f])}

\* mask = 0xffffffff; mask &= ~name_mask[m] for every method using f
Free(f) == Bits \ UNION {name_mask[m] : m \in Range(flag_name[f])}

\* mutant: the methods' masks are not updated
AssignBitNoMaskUpdate ==
  /\ phase = "alloc" /\ Pending # {}
  /\ LET f == NextFlag IN
       /\ Free(f) # {}
       /\ flag_bit' = [flag_bit EXCEPT ![f] = Min(Free(f))]
  /\ UNCHANGED <<Inputs, phase, mi, fi, flag_cnt, flag_name, name_mask,
                 exit_method, flag_info, RewriteVars>>

\* the first bit of bits inside mask; name_mask[m] |= mask
AssignBit ==
  /\ phase = "alloc" /\ Pending # {}
  /\ LET f == NextFlag
         b == Min(Free(f))
     IN /\ Free(f) # {}
        /\ flag_bit' = [flag_bit EXCEPT ![f] = b]
        /\ name_mask' = [m \in Methods |->
                           IF m \in Range(flag_name[f]) THEN name_mask[m] \cup {b}
                           ELSE name_mask[m]]
  /\ UNCHANGED <<Inputs, phase, mi, fi, flag_cnt, flag_name, exit_method,
                 flag_info, RewriteVars>>

\* mask == 0: "ran out of flags at " + m, m being the loop variable left by
\* the mask loop, the last method using the flag; sys.exit(1)
RanOut ==
  /\ phase = "alloc" /\ Pending # {}
  /\ Free(NextFlag) = {}
  /\ phase' = "exit"
  /\ exit_method' = Last(flag_name[NextFlag])
  /\ UNCHANGED <<Inputs, mi, fi, flag_cnt, flag_name, name_mask, flag_bit,
                 flag_info, RewriteVars>>

\* flag_info: a #define of every flag with its bit, in name order; then
\* flags.h is opened, whatever it holds at that moment
AllocDone ==
  /\ phase = "alloc" /\ Pending = {}
  /\ phase' = "rewrite"
  /\ flag_info' = flag_bit
  /\ header' \in Headers
  /\ UNCHANGED <<table, order, mi, fi, flag_cnt, flag_name, name_mask, flag_bit,
                 exit_method, RewriteVars>>

-----------------------------------------------------------------------------
(* Copy flags.h to __tmp, replacing what lies between the BEGIN and END    *)
(* markers by the #define block.                                           *)

Open == <<"open", 0>>     \* " */\n"
Info == <<"info", 0>>     \* flag_info
Close == <<"close", 0>>   \* "/*\n", written before the END line

\* mutant: the BEGIN test made before the skip test
RewriteLineBeginFirst ==
  /\ phase = "rewrite" /\ li <= Len(header)
  /\ LET l == header[li]
         skip0 == skip \/ l.begin
         pre == IF l.begin THEN <<Open, Info>> ELSE <<>>
         kept == IF ~skip0 THEN <<<<"line", li>>>>
                 ELSE IF l.end THEN <<Close, <<"line", li>>>> ELSE <<>>
     IN /\ out' = out \o pre \o kept
        /\ skip' = (skip0 /\ ~l.end)
  /\ li' = li + 1
  /\ UNCHANGED <<Inputs, phase, mi, fi, flag_cnt, flag_name, AllocVars>>

\* one iteration of "for line in open('../src/include/flags.h')"
RewriteLine ==
  /\ phase = "rewrite" /\ li <= Len(header)
  /\ LET l == header[li]
         kept == IF ~skip THEN <<<<"line", li>>>>
                 ELSE IF l.end THEN <<Close, <<"line", li>>>> ELSE <<>>
         skip1 == skip /\ ~l.end
     IN IF l.begin THEN /\ out' = out \o kept \o <<Open, Info>>
                        /\ skip' = TRUE
                   ELSE /\ out' = out \o kept
                        /\ skip' = skip1
  /\ li' = li + 1
  /\ UNCHANGED <<Inputs, phase, mi, fi, flag_cnt, flag_name, AllocVars>>

\* tfile.close(); compare_srcfile replaces flags.h by __tmp
Finish ==
  /\ phase = "rewrite" /\ li > Len(header)
  /\ phase' = "done"
  /\ UNCHANGED <<Inputs, mi, fi, flag_cnt, flag_name, AllocVars, RewriteVars>>

Next ==
  \/ ResetMask \/ SkipNone \/ CountFlag \/ NextMethod \/ BuildDone
  \/ AssignBit \/ RanOut \/ AllocDone
  \/ RewriteLine \/ Finish

\* the script runs to its end or to sys.exit
Spec == Init /\ [][Next]_vars /\ WF_vars(Next)

-----------------------------------------------------------------------------
(* Properties.                                                            *)

TypeOK ==
  /\ phase \in {"build", "alloc", "rewrite", "done", "exit"}
  /\ flag_cnt \in [Flags -> Nat]
  /\ \A f \in Flags : Range(flag_name[f]) \subseteq Methods
  /\ name_mask \in [Methods -> SUBSET Bits]
  /\ flag_bit \in [Flags -> Bits \cup {NoBit}]
  /\ exit_method \in Methods \cup {NoMethod}
  /\ skip \in BOOLEAN
  /\ \A k \in DOMAIN out : out[k] \in Item

\* the flags listed by a method of the dictionary t
FlagsOf(t, m) == Range(t[m]) \ {NONE}

\* No two flags used by one method are given the same bit: the purpose of
\* the script ("flags don't collide"), which depends on the mask of a flag
\* shared by several methods being the union of all their masks.
NoSharedBit ==
  \A m \in Methods : \A f, g \in FlagsOf(table, m) :
     f # g /\ flag_bit[f] # NoBit /\ flag_bit[g] # NoBit => flag_bit[f] # flag_bit[g]

\* Each method's used-bit mask is exactly the set of bits given so far to
\* its flags, whichever method first listed a shared flag.
MaskMatchesBits ==
  \A m \in Methods :
     name_mask[m] = {flag_bit[f] : f \in {g \in FlagsOf(table, m) : flag_bit[g] # NoBit}}

\* a flags.h with one BEGIN line before one END line, no line holding both
WellFormed(h) ==
  \E b, e \in DOMAIN h :
     /\ b < e
     /\ \A k \in DOMAIN h : h[k].begin <=> k = b
     /\ \A k \in DOMAIN h : h[k].end <=> k = e

\* the __tmp such a flags.h should become
Expected(h) ==
  LET b == CHOOSE k \in DOMAIN h : h[k].begin
      e == CHOOSE k \in DOMAIN h : h[k].end
  IN [k \in 1..b |-> <<"line", k>>] \o <<Open, Info, Close>>
       \o [k \in 1..(Len(h) - e + 1) |-> <<"line", e + k - 1>>]

\* For a flags.h whose flags section is marked once, the rewritten file keeps
\* every line outside the section and both marker lines, and puts the
\* #define block, inside comment closers, between them.
HeaderRewritten ==
  phase = "done" /\ WellFormed(header) => out = Expected(header)

=============================================================================
