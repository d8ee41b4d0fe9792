-------------------------------- MODULE Rules --------------------------------
(***************************************************************************)
(* Rules and how they are looked up (rule.cc, the first half of dep.cc and *)
(* Pattern of strutil.cc).  A name is the sequence of its parts, such as   *)
(* <<"foo", ".o">>; a pattern has the part "%".  A rule is                 *)
(*   [outputs, patterns, inputs, orders, dcolon, cmds]                     *)
(* with sequences of names, the inputs of a pattern rule being templates;  *)
(* an implicit rule has no outputs, a static pattern rule has both.        *)
(* A Makefile mk is [rules, vars, implicit, validations, symlinks, globals,*)
(* files, goals, flags]; flags are the warnings that are errors, and the   *)
(* features that are off; vars[t] are the variables of target t, and       *)
(* implicit[t], ... the words of .KATI_IMPLICIT_OUTPUTS, ... among them.   *)
(***************************************************************************)
EXTENDS Integers, Sequences, FiniteSets, SequencesExt

CONSTANTS Ext,      \* parts that begin with a dot
          Special   \* special targets but suffix rules, as parts
Percent == "%"

-----------------------------------------------------------------------------
(* Pattern                                                                 *)

PercentIndex(pat) == SelectInSeq(pat, LAMBDA x : x = Percent)
Prefix(pat) == SubSeq(pat, 1, PercentIndex(pat) - 1)
Suffix(pat) == SubSeq(pat, PercentIndex(pat) + 1, Len(pat))

Match(pat, str) ==
    IF PercentIndex(pat) = 0 THEN str = pat
    ELSE IsPrefix(Prefix(pat), str) /\ IsSuffix(Suffix(pat), str)

\* substr takes a negative length, of a prefix and a suffix that overlap, for
\* all the rest.
Stem(pat, str) ==
    LET n == Len(str) - Len(pat) + 1 IN
    SubSeq(str, PercentIndex(pat), IF n < 0 THEN Len(str) ELSE PercentIndex(pat) + n - 1)

Replaced(subst, stem) ==
    FlattenSeq([i \in DOMAIN subst |-> IF subst[i] = Percent THEN stem ELSE <<subst[i]>>])

\* AppendSubst
Subst(pat, str, subst) ==
    IF ~Match(pat, str) THEN str
    ELSE IF PercentIndex(pat) = 0 THEN subst ELSE Replaced(subst, Stem(pat, str))

SubstAll(pat, str, inputs) == [i \in DOMAIN inputs |-> Subst(pat, str, inputs[i])]

-----------------------------------------------------------------------------
(* Suffix rules, which have no prerequisites of their own                  *)

IsSuffixRule(t) == Len(t) = 2 /\ t[1] \in Ext /\ t[2] \in Ext
IsSpecialTarget(t) == t[1] \in Special \cup Ext
GetExt(t) == IF Last(t) \in Ext THEN Last(t) ELSE ""
ReplaceSuffix(t, ext) == Append(Front(t), ext)

-----------------------------------------------------------------------------
(* RuleMerger                                                              *)

RuleIds(mk) == [i \in DOMAIN mk.rules |-> i]

\* AddRule: the rules of t in order, and the one whose commands count.
RulesFor(mk, t) == SelectSeq(RuleIds(mk), LAMBDA i : Contains(mk.rules[i].outputs, t))
IsDoubleColon(mk, t) == LET rs == RulesFor(mk, t) IN rs # << >> /\ mk.rules[rs[1]].dcolon
PrimaryRule(mk, t) ==
    LET rs == SelectSeq(RulesFor(mk, t), LAMBDA i : mk.rules[i].cmds # << >>) IN
    CASE rs = << >> -> 0
      [] IsSuffixRule(t) \/ IsDoubleColon(mk, t) -> rs[1]
      [] OTHER -> Last(rs)

\* The words of a special variable of t (f is "implicit", "validations" or
\* "symlinks"), which counts only if t has rules.
Words(mk, f, t) == IF RulesFor(mk, t) # << >> /\ t \in DOMAIN mk[f] THEN mk[f][t] ELSE << >>
ImplicitOutputs(mk, t) == Words(mk, "implicit", t)

\* SetImplicitOutput: rules_[t] exists, and has a parent.
Parents(mk, t) == {p \in DOMAIN mk.implicit : t \in Range(ImplicitOutputs(mk, p))}
HasMerger(mk, t) == RulesFor(mk, t) # << >> \/ Parents(mk, t) # {}

\* The errors of AddRule and SetImplicitOutput.
PopulateError(mk) ==
    \/ \E r, s \in Range(mk.rules) :
          /\ r.dcolon # s.dcolon
          /\ Range(r.outputs) \cap Range(s.outputs) # {}
    \/ "overriding_commands" \in mk.flags /\ \E i, j \in DOMAIN mk.rules :
          /\ i < j /\ mk.rules[i].cmds # << >> /\ mk.rules[j].cmds # << >>
          /\ \E t \in Range(mk.rules[i].outputs) \cap Range(mk.rules[j].outputs) :
                ~IsSuffixRule(t) /\ ~mk.rules[j].dcolon
    \/ "suffix_rules" \in mk.flags /\ \E r \in Range(mk.rules) : \E t \in Range(r.outputs) : IsSuffixRule(t)
    \/ "implicit_rules" \in mk.flags /\ \E r \in Range(mk.rules) : r.outputs = << >> /\ r.patterns # << >>
    \/ \E p \in DOMAIN mk.implicit : \E i \in DOMAIN ImplicitOutputs(mk, p) :
          LET t == ImplicitOutputs(mk, p)[i] IN
          \/ PrimaryRule(mk, p) = 0
          \/ Parents(mk, t) # {p} \/ \E j \in 1 .. i - 1 : ImplicitOutputs(mk, p)[j] = t
          \/ PrimaryRule(mk, t) # 0

\* HandleSpecialTargets
GetRuleInputs(mk, s) ==
    FlattenSeq([i \in DOMAIN RulesFor(mk, s) |-> mk.rules[RulesFor(mk, s)[i]].inputs])
Phony(mk) == Range(GetRuleInputs(mk, <<".PHONY">>))
Restat(mk) == Range(GetRuleInputs(mk, <<".KATI_RESTAT">>))
NoSuffixes(mk) == RulesFor(mk, <<".SUFFIXES">>) # << >> /\ GetRuleInputs(mk, <<".SUFFIXES">>) = << >>

\* first_rule_, the default goal
Outputs(mk) == FlattenSeq([i \in DOMAIN mk.rules |-> mk.rules[i].outputs])
FirstRule(mk) ==
    LET o == SelectSeq(Outputs(mk), LAMBDA t : ~IsSpecialTarget(t)) IN
    IF o = << >> THEN << >> ELSE o[1]

-----------------------------------------------------------------------------
(* Rules that may be picked for a target without an explicit one.  A       *)
(* candidate is [rule, pat, inputs, orders], pat << >> for a suffix rule.  *)

\* RuleTrie: the patterns that match, those with short prefixes first, and
\* among these in the order of the rules.
Entries(mk) ==
    FlattenSeq([i \in DOMAIN mk.rules |->
        IF mk.rules[i].outputs # << >> THEN << >>
        ELSE [j \in DOMAIN mk.rules[i].patterns |-> [rule |-> i, pat |-> mk.rules[i].patterns[j]]]])
\* Mutant: the prefix does not count.
MutTrieGetFlat(mk, t) == SelectSeq(Entries(mk), LAMBDA e : Match(e.pat, t))
TrieGet(mk, t) ==
    LET At(k) == SelectSeq(Entries(mk), LAMBDA e :
                    /\ Len(Prefix(e.pat)) = k /\ Match(e.pat, t)
                    /\ Len(Prefix(e.pat)) + Len(Suffix(e.pat)) <= Len(t))
    IN FlattenSeq([k \in 1 .. Len(t) + 1 |-> At(k - 1)])

\* What CanPickImplicitRule tries of one rule: each pattern of it.
Tries(mk, i, t) ==
    LET r == mk.rules[i]
        pats == SelectSeq(r.patterns, LAMBDA p : Match(p, t))
    IN [j \in DOMAIN pats |-> [rule |-> i, pat |-> pats[j],
                               inputs |-> SubstAll(pats[j], t, r.inputs),
                               orders |-> SubstAll(pats[j], t, r.orders)]]

SuffixRules(mk, t) ==
    LET Applies(i) == \E o \in Range(mk.rules[i].outputs) : IsSuffixRule(o) /\ o[2] = GetExt(t)
        Sources(i) == SelectSeq(mk.rules[i].outputs, LAMBDA o : IsSuffixRule(o) /\ o[2] = GetExt(t))
        Each(i) == [j \in DOMAIN Sources(i) |->
                      [rule |-> i, pat |-> << >>, orders |-> << >>,
                       inputs |-> <<ReplaceSuffix(t, Sources(i)[j][1])>>]]
    IN IF NoSuffixes(mk) THEN << >>
       ELSE Reverse(FlattenSeq([i \in DOMAIN mk.rules |-> IF Applies(i) THEN Each(i) ELSE << >>]))

\* All that PickRule tries for t, in order.
Candidates(mk, t) ==
    LET irules == Reverse(TrieGet(mk, t))
    IN FlattenSeq([i \in DOMAIN irules |-> Tries(mk, irules[i].rule, t)]) \o SuffixRules(mk, t)

-----------------------------------------------------------------------------
(* FillDepNode                                                             *)

\* ApplyOutputPattern of a rule of t itself
Applied(r, t, inputs) ==
    IF r.patterns = << >> THEN inputs ELSE SubstAll(r.patterns[1], t, inputs)

\* The rules without commands are merged into the one that has them; the
\* rules of implicit outputs come last.
NoCandidate == [rule |-> 0, pat |-> << >>, inputs |-> << >>, orders |-> << >>]
Merged(mk, t) ==
    LET own == RulesFor(mk, t)
        p == PrimaryRule(mk, t)
        impl == ImplicitOutputs(mk, t)
    IN [first |-> IF p = 0 THEN << >> ELSE <<p>>,
        rest |-> SelectSeq(own, LAMBDA i : i # p)
                 \o FlattenSeq([i \in DOMAIN impl |-> RulesFor(mk, impl[i])])]

\* f is "inputs" or "orders".
InputsOf(mk, t, c, f) ==
    LET m == Merged(mk, t)
        rs == m.first \o m.rest
    IN c[f] \o FlattenSeq([i \in DOMAIN rs |-> Applied(mk.rules[rs[i]], t, mk.rules[rs[i]][f])])

Commands(mk, t, c) ==
    LET m == Merged(mk, t) IN
    (CASE m.first # << >> -> mk.rules[m.first[1]].cmds
       [] m.first = << >> /\ c.rule # 0 -> mk.rules[c.rule].cmds
       [] OTHER -> << >>)
    \o (IF IsDoubleColon(mk, t)
        THEN FlattenSeq([i \in DOMAIN m.rest |-> mk.rules[m.rest[i]].cmds]) ELSE << >>)

-----------------------------------------------------------------------------
(* Target-specific variables: vars[t] maps a name to [op, val].            *)

\* MergeImplicitRuleVars
MergeVars(mk, t, vars) ==
    LET base == IF t \in DOMAIN mk.vars THEN mk.vars[t] ELSE [v \in {} |-> 0] IN vars @@ base

OwnVars(mk, t, c) ==
    LET own == MergeVars(mk, t, [v \in {} |-> 0]) IN
    CASE PrimaryRule(mk, t) # 0 ->
           FoldLeft(LAMBDA acc, o : MergeVars(mk, o, acc), own, ImplicitOutputs(mk, t))
      [] PrimaryRule(mk, t) = 0 /\ HasMerger(mk, t) -> own
      [] ~HasMerger(mk, t) /\ c.pat # << >> -> MergeVars(mk, c.pat, own)
      [] ~HasMerger(mk, t) /\ c.pat = << >> /\ c.rule # 0 /\ t \in DOMAIN mk.vars ->
           MergeVars(mk, mk.rules[c.rule].outputs[1], own)
      [] OTHER -> own
=============================================================================
