---------------------- MODULE OpenTelemetryMetrics_proofs ----------------------
(***************************************************************************)
(* Proofs about OpenTelemetryMetrics, for any calls, names, codes,         *)
(* configurations, label sets and shapes.                                  *)
(***************************************************************************)
EXTENDS OpenTelemetryMetrics, LeastElement_proofs, FiniteSetTheorems, TLAPS

\* Only an Init that finds metrics enabled makes families to count in.
EmptyInv == ~Enabled => \A f \in Families : DOMAIN families[f] = {}

\* No filter reports before Init, and a call passes the first point first.
EarlyInv ==
  \A c \in Calls :
    /\ plugin \in {"absent", "registered"} => call[c].phase = "new"
    /\ call[c].phase = "new" => ~call[c].started

\* Families never hold more than finitely many observations.
FiniteInv == \A f \in Families : IsFiniteSet(Occurrences(families[f], DOMAIN families[f]))

IInv ==
  /\ TypeOK /\ EmptyInv /\ EarlyInv /\ FiniteInv
  /\ EveryCallIsCountedOnce /\ ClassAsDocumented /\ FailuresAreSeen
-----------------------------------------------------------------------------
(* Counting in bags. *)

IsBag(bag) == bag \in [DOMAIN bag -> Nat \ {0}]

LEMMA BagAddFields ==
  ASSUME NEW bag, IsBag(bag), NEW x
  PROVE  LET new == BagAdd(bag, x)
             n == IF x \in DOMAIN bag THEN bag[x] ELSE 0
         IN  /\ IsBag(new) /\ DOMAIN new = DOMAIN bag \cup {x}
             /\ n \in Nat /\ new[x] = n + 1
             /\ \A l \in DOMAIN bag : l # x => new[l] = bag[l]
BY DEF IsBag, BagAdd

LEMMA OccurrencesOf ==
  ASSUME NEW bag, NEW labels, NEW o
  PROVE  o \in Occurrences(bag, labels) <=>
           \E l \in labels : \E i \in 1 .. bag[l] : o = <<l, i>>
BY DEF Occurrences

\* An observation more under a label set is one occurrence more wherever that
\* label set is looked at, and none elsewhere.
LEMMA OccurrencesAdd ==
  ASSUME NEW bag, IsBag(bag), NEW x, NEW labels, labels \subseteq DOMAIN bag \cup {x}
  PROVE  LET new == BagAdd(bag, x)
             old == labels \cap DOMAIN bag
             o == <<x, (IF x \in DOMAIN bag THEN bag[x] ELSE 0) + 1>>
         IN  /\ x \notin labels => Occurrences(new, labels) = Occurrences(bag, old)
             /\ x \in labels => /\ Occurrences(new, labels) = Occurrences(bag, old) \cup {o}
                                /\ o \notin Occurrences(bag, old)
<1> DEFINE new == BagAdd(bag, x)
           old == labels \cap DOMAIN bag
           n == IF x \in DOMAIN bag THEN bag[x] ELSE 0
           o == <<x, n + 1>>
<1>1. /\ n \in Nat /\ new[x] = n + 1
      /\ \A l \in DOMAIN bag : l # x => new[l] = bag[l]
  BY BagAddFields
<1> HIDE DEF new
<1>2. CASE x \notin labels
  <2>1. old = labels /\ \A l \in labels : new[l] = bag[l]
    BY <1>1, <1>2
  <2>2. Occurrences(new, labels) = Occurrences(bag, old)
    BY <2>1 DEF Occurrences
  <2>3. QED
    BY <1>2, <2>2 DEF new
<1>3. CASE x \in labels
  <2>1. \A l \in old : bag[l] \in Nat
    BY DEF IsBag
  <2>2. x \in old <=> x \in DOMAIN bag
    BY <1>3
  <2>3. 1 .. n + 1 = (1 .. n) \cup {n + 1}
    BY <1>1
  <2>4. o \notin Occurrences(bag, old)
    <3>1. ASSUME NEW l \in old, NEW i, i \in 1 .. bag[l], o = <<l, i>> PROVE FALSE
      <4>1. l = x /\ i = n + 1 /\ i <= bag[x] /\ x \in DOMAIN bag
        BY <2>1, <3>1
      <4>2. QED
        BY <1>1, <4>1
    <3>2. QED
      BY <3>1, OccurrencesOf
  <2>5. ASSUME NEW p \in Occurrences(new, labels) PROVE p \in Occurrences(bag, old) \cup {o}
    <3>1. PICK l \in labels : \E i \in 1 .. new[l] : p = <<l, i>>
      BY OccurrencesOf
    <3>a. PICK i \in 1 .. new[l] : p = <<l, i>>
      BY <3>1
    <3>2. CASE l # x
      BY <1>1, <3>a, <3>2, OccurrencesOf
    <3>3. CASE l = x
      <4>1. i \in 1 .. n \/ i = n + 1
        BY <1>1, <2>3, <3>3
      <4>2. i \in 1 .. n => x \in DOMAIN bag /\ n = bag[x]
        BY <1>1
      <4>3. i \in 1 .. n => p \in Occurrences(bag, old)
        BY <2>2, <3>a, <3>3, <4>2, OccurrencesOf
      <4>4. QED
        BY <3>a, <3>3, <4>1, <4>3
    <3>4. QED
      BY <3>2, <3>3
  <2>6. ASSUME NEW p \in Occurrences(bag, old) PROVE p \in Occurrences(new, labels)
    <3>1. PICK l \in old : \E i \in 1 .. bag[l] : p = <<l, i>>
      BY OccurrencesOf
    <3>2. l \in labels /\ 1 .. bag[l] \subseteq 1 .. new[l]
      BY <1>1, <2>1
    <3>3. QED
      BY <3>1, <3>2, OccurrencesOf
  <2>7. o \in Occurrences(new, labels)
    BY <1>1, <1>3, OccurrencesOf
  <2>8. Occurrences(new, labels) = Occurrences(bag, old) \cup {o}
    BY <2>5, <2>6, <2>7
  <2>9. QED
    BY <1>3, <2>4, <2>8 DEF new
<1>4. QED
  BY <1>2, <1>3

LEMMA OccurrencesAddCount ==
  ASSUME NEW bag, IsBag(bag), NEW x, NEW labels, labels \subseteq DOMAIN bag \cup {x},
         IsFiniteSet(Occurrences(bag, labels \cap DOMAIN bag))
  PROVE  /\ IsFiniteSet(Occurrences(BagAdd(bag, x), labels))
         /\ Cardinality(Occurrences(BagAdd(bag, x), labels)) =
              Cardinality(Occurrences(bag, labels \cap DOMAIN bag))
                + (IF x \in labels THEN 1 ELSE 0)
<1> DEFINE before == Occurrences(bag, labels \cap DOMAIN bag)
           after == Occurrences(BagAdd(bag, x), labels)
           o == <<x, (IF x \in DOMAIN bag THEN bag[x] ELSE 0) + 1>>
<1>1. /\ x \notin labels => after = before
      /\ x \in labels => after = before \cup {o} /\ o \notin before
  BY OccurrencesAdd
<1> HIDE DEF before, after, o
<1>2. IsFiniteSet(before)
  BY DEF before
<1>3. Cardinality(before) \in Nat
  BY <1>2, FS_CardinalityType
<1>4. IsFiniteSet(before \cup {o}) /\
        (o \notin before => Cardinality(before \cup {o}) = Cardinality(before) + 1)
  BY <1>2, FS_AddElement
<1>5. IsFiniteSet(after) /\ Cardinality(after) = Cardinality(before) + (IF x \in labels THEN 1 ELSE 0)
  <2>1. CASE x \notin labels
    BY <1>1, <1>2, <1>3, <2>1
  <2>2. CASE x \in labels
    <3>1. after = before \cup {o} /\ o \notin before
      BY <1>1, <2>2
    <3>2. QED
      BY <1>4, <2>2, <3>1
  <2>3. QED
    BY <2>1, <2>2
<1>6. QED
  BY <1>5 DEF before, after
-----------------------------------------------------------------------------
(* Classes of return codes. *)

\* There is a first rule among those that match.
LEMMA FirstExists == ASSUME NEW S \in SUBSET Nat, S # {} PROVE Min(S) \in S
BY LeastElement DEF Min

\* An int that is configured is the key it stands for.
LEMMA ToIntOfInt == ASSUME NEW code \in 0 .. INT_MAX PROVE ToInt(code) = code
<1>1. INT_MAX \in Nat
  BY IntAssumption
<1> DEFINE width == 2 * (INT_MAX + 1)
<1>2. width \in Nat /\ code < width
  BY <1>1
<1> HIDE DEF width
<1>3. code % width = code
  BY <1>2
<1>4. QED
  BY <1>3 DEF ToInt, width

LEMMA RuleFields ==
  ASSUME config \in Configs, NEW i \in DOMAIN config.codes
  PROVE  i \in Nat /\ config.codes[i].code \in Nat
<1> DEFINE Rule == [code : Nat, type : STRING, service : STRING, method : STRING]
           codes == config.codes
<1>1. codes \in Seq(Rule)
  BY ConfigAssumption
<1>2. DOMAIN codes = 1 .. Len(codes) /\ Len(codes) \in Nat
  <2> HIDE DEF codes, Rule
  <2>1. QED
    BY <1>1
<1>3. codes[i] \in Rule
  <2> HIDE DEF Rule
  <2>1. i \in 1 .. Len(codes)
    BY <1>2
  <2> HIDE DEF codes
  <2>2. QED
    BY <1>1, <2>1
<1>4. codes[i].code \in Nat
  BY <1>3
<1>5. i \in Nat
  BY <1>2
<1>6. QED
  BY <1>4, <1>5

LEMMA DefaultClass ==
  ASSUME NEW code
  PROVE  /\ SetCallResultByDefault(code) \in Types
         /\ SetCallResultByDefault(code) = "success" <=> code = 0
         /\ SetCallResultByDefault(code) = "timeout" <=> code \in {21, 24, 101, 102}
BY DEF SetCallResultByDefault, Types

\* The class of a code is one a matching rule gives it, or the default.
LEMMA ClassOfCode ==
  ASSUME config \in Configs, NEW code, NEW service, NEW method
  PROVE  LET class == CodeType(code, service, method)
             rules == RulesOn(code, service, method)
         IN  /\ class \in Types
             /\ CodesAreInts =>
                  \/ rules # {} /\ \E rule \in rules : class = rule.type
                  \/ rules = {} /\ class = SetCallResultByDefault(code)
<1> DEFINE matching ==
             {i \in UserRules(code) : IsMatchUserDefine(config.codes[i], service, method)}
           rules == RulesOn(code, service, method)
           class == CodeType(code, service, method)
<1>1. matching \in SUBSET Nat
  BY RuleFields DEF UserRules
<1>2. CodesAreInts => rules = {config.codes[i] : i \in matching}
  <2> SUFFICES ASSUME CodesAreInts PROVE rules = {config.codes[i] : i \in matching}
    OBVIOUS
  <2>1. \A i \in DOMAIN config.codes : ToInt(config.codes[i].code) = config.codes[i].code
    BY RuleFields, ToIntOfInt, IntAssumption DEF CodesAreInts
  <2>2. QED
    BY <2>1 DEF RulesOn, UserRules, IsMatchUserDefine
<1>3. CASE matching = {}
  <2>1. class = SetCallResultByDefault(code)
    BY <1>3 DEF CodeType
  <2>2. QED
    BY <1>2, <1>3, <2>1, DefaultClass
<1>4. CASE matching # {}
  <2>1. Min(matching) \in matching
    BY <1>1, <1>4, FirstExists
  <2>2. class = config.codes[Min(matching)].type
    BY <1>4 DEF CodeType
  <2>3. class \in Types
    BY <2>1, <2>2 DEF UserRules
  <2>4. QED
    BY <1>2, <2>1, <2>2, <2>3
<1>5. QED
  BY <1>3, <1>4
-----------------------------------------------------------------------------
(* One report to a family. *)

\* A step of a call keeps its names, and so who is counted under which identity.
LEMMA SameNames ==
  ASSUME NEW c \in Calls, NEW after, DOMAIN call = Calls,
         call' = [call EXCEPT ![c] = after], after.names = call[c].names
  PROVE  /\ call'[c] = after /\ \A d \in Calls \ {c} : call'[d] = call[d]
         /\ \A d \in Calls : Infos(d)' = Infos(d)
         /\ Identities' = Identities
<1>1. call'[c] = after /\ \A d \in Calls \ {c} : call'[d] = call[d]
  OBVIOUS
<1>2. \A d \in Calls : call'[d].names = call[d].names
  BY <1>1
<1>3. \A d \in Calls : Infos(d)' = Infos(d)
  BY <1>2 DEF Infos
<1>4. Identities' = Identities
  BY <1>3 DEF Identities
<1>5. QED
  BY <1>1, <1>3, <1>4

\* Each side has a family of its own for each point.
LEMMA FamiliesDiffer ==
  ASSUME NEW s \in Sides, NEW p \in Points, NEW t \in Sides, NEW q \in Points
  PROVE  /\ FamilyOf(s, p) \in Families
         /\ FamilyOf(s, p) = FamilyOf(t, q) => s = t /\ p = q
         /\ FamilyOf(s, p) \in {"server_handled_total", "client_handled_total"} <=> p = "handled"
BY DEF FamilyOf, Sides, Points, Families

LEMMA SideOfCall == ASSUME NEW c \in Calls PROVE Side(c) \in Sides
BY DEF Side, Sides

\* The observations under some of the label sets of a family are finitely many.
LEMMA OccurrencesFinite ==
  ASSUME FiniteInv, NEW f \in Families, NEW labels \in SUBSET DOMAIN families[f]
  PROVE  /\ IsFiniteSet(Occurrences(families[f], labels))
         /\ Counted(f, labels) \in Nat
<1>1. Occurrences(families[f], labels) \subseteq Occurrences(families[f], DOMAIN families[f])
  BY DEF Occurrences
<1>2. IsFiniteSet(Occurrences(families[f], labels))
  BY <1>1, FS_Subset DEF FiniteInv
<1>3. QED
  BY <1>2, FS_CardinalityType DEF Counted

\* A report keeps the families bags, finite, and empty while metrics are disabled.
LEMMA ReportKeepsBags ==
  ASSUME TypeOK, EmptyInv, FiniteInv, NEW f \in Families, NEW label,
         UNCHANGED <<plugin, config>>, Enabled,
         families' = [families EXCEPT ![f] = BagAdd(@, label)]
  PROVE  /\ DOMAIN families' = Families /\ \A g \in Families : IsBag(families'[g])
         /\ \A g \in Families \ {f} : families'[g] = families[g]
         /\ families'[f] = BagAdd(families[f], label)
         /\ DOMAIN families'[f] = DOMAIN families[f] \cup {label}
         /\ EmptyInv' /\ FiniteInv'
<1>1. DOMAIN families = Families /\ \A g \in Families : IsBag(families[g])
  BY DEF TypeOK, IsBag
<1>2. /\ DOMAIN families' = Families
      /\ \A g \in Families \ {f} : families'[g] = families[g]
      /\ families'[f] = BagAdd(families[f], label)
  BY <1>1
<1>3. /\ IsBag(BagAdd(families[f], label))
      /\ DOMAIN BagAdd(families[f], label) = DOMAIN families[f] \cup {label}
  BY <1>1, BagAddFields
<1>4. EmptyInv'
  BY DEF EmptyInv, Enabled
<1>5. IsFiniteSet(Occurrences(families'[f], DOMAIN families'[f]))
  <2>1. (DOMAIN families[f] \cup {label}) \cap DOMAIN families[f] = DOMAIN families[f]
    OBVIOUS
  <2>2. IsFiniteSet(Occurrences(families[f], DOMAIN families[f]))
    BY DEF FiniteInv
  <2>3. IsFiniteSet(Occurrences(BagAdd(families[f], label), DOMAIN families[f] \cup {label}))
    BY <1>1, <2>1, <2>2, OccurrencesAddCount
  <2>4. QED
    BY <1>2, <1>3, <2>3
<1>6. FiniteInv'
  BY <1>2, <1>5 DEF FiniteInv
<1>7. QED
  BY <1>1, <1>2, <1>3, <1>4, <1>6

\* It adds one observation to what is counted under label sets with its own.
LEMMA ReportCounts ==
  ASSUME TypeOK, FiniteInv, NEW f \in Families, NEW label, NEW labels,
         labels \subseteq DOMAIN families[f] \cup {label},
         families' = [families EXCEPT ![f] = BagAdd(@, label)]
  PROVE  Counted(f, labels)' = Counted(f, labels \cap DOMAIN families[f])
                                 + (IF label \in labels THEN 1 ELSE 0)
<1>1. IsBag(families[f]) /\ families'[f] = BagAdd(families[f], label)
  BY DEF TypeOK, IsBag
<1>2. IsFiniteSet(Occurrences(families[f], labels \cap DOMAIN families[f]))
  BY OccurrencesFinite
<1>3. QED
  BY <1>1, <1>2, OccurrencesAddCount DEF Counted
-----------------------------------------------------------------------------
(* A call that passes a point. *)

\* What the three steps of the filters have in common: a call passes one more
\* point and, with metrics enabled, is reported to the family of that point.
Reports(c, point, after, label) ==
  /\ plugin = "ready" /\ UNCHANGED <<plugin, config>>
  /\ call' = [call EXCEPT ![c] = after]
  /\ after.names = call[c].names /\ after.phase # "new"
  /\ Identity(label) = Identity(Infos(c))
  /\ IF point = "handled" THEN label = SetCallResult(RetCode(after.status), Infos(c))
                          ELSE after.status = call[c].status
  /\ ~HasPassed(c, point) /\ HasPassed(c, point)'
  /\ \A p \in Points \ {point} : HasPassed(c, p)' = HasPassed(c, p)
  /\ families' = IF Enabled
                 THEN [families EXCEPT ![FamilyOf(Side(c), point)] = BagAdd(@, label)]
                 ELSE families

LEMMA OthersHavePassed ==
  ASSUME NEW c \in Calls, NEW after, DOMAIN call = Calls,
         call' = [call EXCEPT ![c] = after],
         NEW d \in Calls \ {c}, NEW p \in Points
  PROVE  HasPassed(d, p)' = HasPassed(d, p)
<1>1. call'[d] = call[d]
  OBVIOUS
<1>2. QED
  BY <1>1 DEF HasPassed, Points

LEMMA ReportPasses ==
  ASSUME TypeOK, NEW c \in Calls, NEW point \in Points, NEW after, NEW label,
         Reports(c, point, after, label), NEW s \in Sides, NEW p \in Points, NEW id
  PROVE  IF s = Side(c) /\ p = point /\ id = Identity(Infos(c))
         THEN Passed(s, p, id)' = Passed(s, p, id) \cup {c} /\ c \notin Passed(s, p, id)
         ELSE Passed(s, p, id)' = Passed(s, p, id)
<1>1. DOMAIN call = Calls /\ call' = [call EXCEPT ![c] = after] /\ after.names = call[c].names
  BY DEF TypeOK, Reports
<1>2. \A d \in Calls : Infos(d)' = Infos(d)
  BY <1>1, SameNames
<1>3. \A d \in Calls : Identity(Infos(d))' = Identity(Infos(d)) /\ Side(d)' = Side(d)
  BY <1>2 DEF Identity, Side
<1>4. \A d \in Calls \ {c} : HasPassed(d, p)' = HasPassed(d, p)
  BY <1>1, OthersHavePassed
<1>5. /\ ~HasPassed(c, point) /\ HasPassed(c, point)'
      /\ p # point => HasPassed(c, p)' = HasPassed(c, p)
  BY DEF Reports
<1>6. CASE s = Side(c) /\ p = point /\ id = Identity(Infos(c))
  BY <1>3, <1>4, <1>5, <1>6 DEF Passed
<1>7. CASE ~(s = Side(c) /\ p = point /\ id = Identity(Infos(c)))
  <2>1. ASSUME NEW d \in Calls
        PROVE  Side(d) = s /\ Identity(Infos(d)) = id /\ HasPassed(d, p)' <=>
               Side(d) = s /\ Identity(Infos(d)) = id /\ HasPassed(d, p)
    BY <1>4, <1>5, <1>7
  <2>2. QED
    BY <1>3, <1>7, <2>1 DEF Passed
<1>8. QED
  BY <1>6, <1>7

LEMMA PassedFinite ==
  ASSUME NEW s, NEW p, NEW id
  PROVE  /\ IsFiniteSet(Passed(s, p, id))
         /\ \A T \in SUBSET Passed(s, p, id) : IsFiniteSet(T) /\ Cardinality(T) \in Nat
<1>1. Passed(s, p, id) \subseteq Calls /\ IsFiniteSet(Calls)
  BY CallsAssumption DEF Passed, Calls
<1>2. \A T \in SUBSET Passed(s, p, id) : IsFiniteSet(T)
  BY <1>1, FS_Subset
<1>3. QED
  BY <1>1, <1>2, FS_Subset, FS_CardinalityType

\* The call and its report keep the counts in step.
LEMMA ReportIsCounted ==
  ASSUME TypeOK, EmptyInv, FiniteInv, EveryCallIsCountedOnce,
         NEW c \in Calls, NEW point \in Points, NEW after, NEW label,
         Reports(c, point, after, label)
  PROVE  EveryCallIsCountedOnce'
<1> SUFFICES ASSUME Enabled', NEW s \in Sides, NEW p \in Points, NEW id \in Identities'
    PROVE  LET f == FamilyOf(s, p)
           IN  Counted(f, {l \in DOMAIN families[f] : Identity(l) = id})'
                 = Cardinality(Passed(s, p, id)')
  BY DEF EveryCallIsCountedOnce, FamilyOf, Identity
<1>1. Enabled
  BY DEF Reports, Enabled
<1>2. id \in Identities
  BY SameNames DEF Reports, TypeOK
<1>a. PICK f : f = FamilyOf(s, p)
  OBVIOUS
<1>b. PICK g : g = FamilyOf(Side(c), point)
  OBVIOUS
<1>c. PICK labels : labels = {l \in DOMAIN families[f] : Identity(l) = id}
  OBVIOUS
<1>3. Counted(f, labels) = Cardinality(Passed(s, p, id))
  BY <1>1, <1>2, <1>a, <1>c DEF EveryCallIsCountedOnce
<1>4. /\ f \in Families /\ g \in Families /\ (f = g <=> s = Side(c) /\ p = point)
  BY <1>a, <1>b, SideOfCall, FamiliesDiffer
<1>5. families' = [families EXCEPT ![g] = BagAdd(@, label)]
  BY <1>1, <1>b DEF Reports
<1>6. /\ \A h \in Families \ {g} : families'[h] = families[h]
      /\ DOMAIN families'[g] = DOMAIN families[g] \cup {label}
  BY <1>1, <1>4, <1>5, ReportKeepsBags DEF Reports
<1>7. Identity(label) = Identity(Infos(c))
  BY DEF Reports
<1>8. CASE f # g
  <2>1. Passed(s, p, id)' = Passed(s, p, id)
    BY <1>4, <1>8, ReportPasses
  <2>2. families'[f] = families[f]
    BY <1>4, <1>6, <1>8
  <2>3. QED
    BY <1>3, <1>a, <1>c, <2>1, <2>2 DEF Counted
<1>9. CASE f = g
  <2>0. PICK new : new = {l \in DOMAIN families[f] \cup {label} : Identity(l) = id}
    OBVIOUS
  <2>1. /\ new \subseteq DOMAIN families[f] \cup {label} /\ new \cap DOMAIN families[f] = labels
        /\ label \in new <=> id = Identity(Infos(c))
    BY <1>7, <1>c, <2>0
  <2>2. Counted(f, new)' = Counted(f, labels) + (IF label \in new THEN 1 ELSE 0)
    BY <1>4, <1>5, <1>9, <2>1, ReportCounts
  <2>3. {l \in DOMAIN families'[f] : Identity(l) = id} = new
    BY <1>6, <1>9, <2>0
  <2>4. IsFiniteSet(Passed(s, p, id)) /\ Cardinality(Passed(s, p, id)) \in Nat
    BY PassedFinite
  <2>5. CASE id = Identity(Infos(c))
    <3>1. Passed(s, p, id)' = Passed(s, p, id) \cup {c} /\ c \notin Passed(s, p, id)
      BY <1>4, <1>9, <2>5, ReportPasses
    <3>2. Cardinality(Passed(s, p, id) \cup {c}) = Cardinality(Passed(s, p, id)) + 1
      BY <2>4, <3>1, FS_AddElement
    <3>3. Counted(f, new)' = Cardinality(Passed(s, p, id)')
      BY <1>3, <2>1, <2>2, <2>5, <3>1, <3>2
    <3>4. QED
      BY <1>a, <2>3, <3>3 DEF Counted
  <2>6. CASE id # Identity(Infos(c))
    <3>1. Passed(s, p, id)' = Passed(s, p, id)
      BY <2>6, ReportPasses
    <3>2. Counted(f, new)' = Cardinality(Passed(s, p, id)')
      BY <1>3, <2>1, <2>2, <2>4, <2>6, <3>1
    <3>3. QED
      BY <1>a, <2>3, <3>2 DEF Counted
  <2>7. QED
    BY <2>5, <2>6
<1>10. QED
  BY <1>8, <1>9
-----------------------------------------------------------------------------
(* The class a call is counted under. *)

\* A label set of a handled call is classed as documented.
LEMMA ResultAsDocumented ==
  ASSUME config \in Configs, CodesAreInts, NEW code, NEW infos
  PROVE  LET l == SetCallResult(code, infos)
             rules == RulesOn(l.code, l.callee_service, l.callee_method)
         IN  IF rules # {} THEN \E rule \in rules : l.code_type = rule.type
             ELSE /\ l.code_type = "success" <=> l.code = 0
                  /\ l.code_type = "timeout" <=> l.code \in {21, 24, 101, 102}
<1> DEFINE l == SetCallResult(code, infos)
<1>1. /\ l.code = code /\ l.callee_service = infos.callee_service
      /\ l.callee_method = infos.callee_method
      /\ l.code_type = CodeType(code, infos.callee_service, infos.callee_method)
  BY DEF SetCallResult
<1> HIDE DEF l
<1>2. LET class == CodeType(l.code, l.callee_service, l.callee_method)
          rules == RulesOn(l.code, l.callee_service, l.callee_method)
      IN  \/ rules # {} /\ \E rule \in rules : class = rule.type
          \/ rules = {} /\ class = SetCallResultByDefault(l.code)
  BY ClassOfCode
<1>3. QED
  BY <1>1, <1>2, DefaultClass DEF l

\* A call is classed a success when both of its codes are 0, or one has a rule
\* that says so.
LEMMA SuccessIsEarned ==
  ASSUME config \in Configs, CodesAreInts, NEW status, NEW infos,
         SetCallResult(RetCode(status), infos).code_type = "success"
  PROVE  \/ status.framework = 0 /\ status.func = 0
         \/ \E code \in {status.framework, status.func} :
              \E rule \in RulesOn(code, infos.callee_service, infos.callee_method) :
                rule.type = "success"
<1> DEFINE code == RetCode(status)
           rules == RulesOn(code, infos.callee_service, infos.callee_method)
<1>1. CodeType(code, infos.callee_service, infos.callee_method) = "success"
  BY DEF SetCallResult
<1>2. code \in {status.framework, status.func}
  BY DEF RetCode
<1> HIDE DEF code
<1>3. \/ \E rule \in rules : rule.type = "success"
      \/ SetCallResultByDefault(code) = "success"
  BY <1>1, ClassOfCode
<1>4. CASE \E rule \in rules : rule.type = "success"
  BY <1>2, <1>4
<1>5. CASE SetCallResultByDefault(code) = "success"
  <2>1. code = 0
    BY <1>5, DefaultClass
  <2>2. status.framework = 0 /\ status.func = 0
    BY <2>1 DEF RetCode, code
  <2>3. QED
    BY <2>2
<1>6. QED
  BY <1>3, <1>4, <1>5

LEMMA ReportIsClassed ==
  ASSUME TypeOK, EmptyInv, FiniteInv, ClassAsDocumented,
         NEW c \in Calls, NEW point \in Points, NEW after, NEW label,
         Reports(c, point, after, label)
  PROVE  /\ ClassAsDocumented'
         /\ DOMAIN families' = Families /\ \A f \in Families : IsBag(families'[f])
         /\ EmptyInv' /\ FiniteInv'
         /\ \A f \in {"server_handled_total", "client_handled_total"} :
              \A l \in DOMAIN families'[f] : l.code_type \in Types
<1>a. PICK g : g = FamilyOf(Side(c), point)
  OBVIOUS
<1>1. /\ g \in Families
      /\ g \in {"server_handled_total", "client_handled_total"} <=> point = "handled"
  BY <1>a, SideOfCall, FamiliesDiffer
<1>2. config \in Configs /\ config' = config
  BY DEF TypeOK, Reports
<1>3. \A code, service, method : RulesOn(code, service, method)' = RulesOn(code, service, method)
  BY <1>2 DEF RulesOn
<1>4. CodesAreInts' = CodesAreInts
  BY <1>2 DEF CodesAreInts
<1>5. CASE ~Enabled
  <2>1. families' = families /\ ~Enabled'
    BY <1>5 DEF Reports, Enabled
  <2>2. DOMAIN families' = Families /\ (\A f \in Families : IsBag(families'[f])) /\ EmptyInv' /\ FiniteInv'
    BY <1>5, <2>1 DEF EmptyInv, FiniteInv, TypeOK, IsBag
  <2>3. \A f \in Families : DOMAIN families'[f] = {}
    BY <1>5, <2>1 DEF EmptyInv
  <2>4. {"server_handled_total", "client_handled_total"} \subseteq Families
    BY DEF Families
  <2>5. QED
    BY <2>2, <2>3, <2>4 DEF ClassAsDocumented
<1>6. CASE Enabled
  <2>1. families' = [families EXCEPT ![g] = BagAdd(@, label)]
    BY <1>6, <1>a DEF Reports
  <2>2. /\ DOMAIN families' = Families /\ \A f \in Families : IsBag(families'[f])
        /\ \A f \in Families \ {g} : families'[f] = families[f]
        /\ DOMAIN families'[g] = DOMAIN families[g] \cup {label}
        /\ EmptyInv' /\ FiniteInv'
    BY <1>1, <1>6, <2>1, ReportKeepsBags DEF Reports
  <2>3. ASSUME NEW f \in {"server_handled_total", "client_handled_total"},
               NEW l \in DOMAIN families'[f]
        PROVE  \/ l \in DOMAIN families[f]
               \/ l = SetCallResult(RetCode(after.status), Infos(c))
    <3>1. f \in Families
      BY DEF Families
    <3>2. CASE f # g
      BY <2>2, <3>1, <3>2
    <3>3. CASE f = g
      <4>1. label = SetCallResult(RetCode(after.status), Infos(c))
        BY <1>1, <3>3 DEF Reports
      <4>2. QED
        BY <2>2, <3>3, <4>1
    <3>4. QED
      BY <3>2, <3>3
  <2>4. SetCallResult(RetCode(after.status), Infos(c)).code_type \in Types
    BY <1>2, ClassOfCode DEF SetCallResult
  <2>5. \A f \in {"server_handled_total", "client_handled_total"} :
          \A l \in DOMAIN families'[f] : l.code_type \in Types
    BY <2>3, <2>4 DEF TypeOK
  <2>6. ClassAsDocumented'
    <3> SUFFICES ASSUME CodesAreInts,
                        NEW f \in {"server_handled_total", "client_handled_total"},
                        NEW l \in DOMAIN families'[f]
                 PROVE  LET rules == RulesOn(l.code, l.callee_service, l.callee_method)
                        IN  IF rules # {} THEN \E rule \in rules : l.code_type = rule.type
                            ELSE /\ l.code_type = "success" <=> l.code = 0
                                 /\ l.code_type = "timeout" <=> l.code \in {21, 24, 101, 102}
      BY <1>3, <1>4 DEF ClassAsDocumented
    <3>1. CASE l \in DOMAIN families[f]
      BY <3>1 DEF ClassAsDocumented
    <3>2. CASE l = SetCallResult(RetCode(after.status), Infos(c))
      <4> HIDE DEF SetCallResult
      <4>1. QED
        BY <1>2, <3>2, ResultAsDocumented
    <3>3. QED
      BY <2>3, <3>1, <3>2
  <2>7. QED
    BY <2>2, <2>5, <2>6
<1>7. QED
  BY <1>5, <1>6

\* A report of a success comes with a call that earned it, and no call that has
\* been handled gets another status.
LEMMA ReportedFailuresAreSeen ==
  ASSUME TypeOK, EmptyInv, FiniteInv, FailuresAreSeen,
         NEW c \in Calls, NEW point \in Points, NEW after, NEW label,
         Reports(c, point, after, label)
  PROVE  FailuresAreSeen'
<1>1. /\ config \in Configs /\ config' = config
      /\ DOMAIN call = Calls /\ call' = [call EXCEPT ![c] = after]
      /\ after.names = call[c].names
  BY DEF TypeOK, Reports
<1>2. CodesAreInts' = CodesAreInts
  BY <1>1 DEF CodesAreInts
<1>3. \A code, service, method : RulesOn(code, service, method)' = RulesOn(code, service, method)
  BY <1>1 DEF RulesOn
<1>4. /\ call'[c] = after /\ \A d \in Calls \ {c} : call'[d] = call[d]
      /\ \A d \in Calls : Infos(d)' = Infos(d)
      /\ Identities' = Identities
  BY <1>1, SameNames
<1> SUFFICES ASSUME CodesAreInts, NEW s \in Sides, NEW id \in Identities
    PROVE  LET f == FamilyOf(s, "handled")
           IN  Counted(f, {l \in DOMAIN families[f] : Identity(l) = id /\ l.code_type = "success"})'
                 <= Cardinality({d \in Passed(s, "handled", id)' : (Succeeded(d) \/ Excused(d))'})
  BY <1>2, <1>4 DEF FailuresAreSeen, FamilyOf, Identity
<1>a. PICK f : f = FamilyOf(s, "handled")
  OBVIOUS
<1>b. PICK g : g = FamilyOf(Side(c), point)
  OBVIOUS
<1>c. PICK labels :
        labels = {l \in DOMAIN families[f] : Identity(l) = id /\ l.code_type = "success"}
  OBVIOUS
<1>d. PICK new :
        new = {l \in DOMAIN families'[f] : Identity(l) = id /\ l.code_type = "success"}
  OBVIOUS
<1>e. PICK good : good = {d \in Passed(s, "handled", id) : Succeeded(d) \/ Excused(d)}
  OBVIOUS
<1>g. PICK fine : fine = {d \in Passed(s, "handled", id)' : (Succeeded(d) \/ Excused(d))'}
  OBVIOUS
<1>5. Counted(f, labels) <= Cardinality(good)
  BY <1>a, <1>c, <1>e DEF FailuresAreSeen
<1>6. /\ f \in Families /\ g \in Families /\ (f = g <=> s = Side(c) /\ point = "handled")
      /\ "handled" \in Points
  BY <1>a, <1>b, SideOfCall, FamiliesDiffer DEF Points
<1>7. /\ IsFiniteSet(good) /\ Cardinality(good) \in Nat
      /\ IsFiniteSet(fine) /\ Cardinality(fine) \in Nat
      /\ Counted(f, labels) \in Nat
  <2>1. good \subseteq Passed(s, "handled", id)
    BY <1>e
  <2>2. fine \subseteq Calls /\ IsFiniteSet(Calls)
    BY <1>g, CallsAssumption DEF Passed, Calls
  <2>3. IsFiniteSet(fine) /\ Cardinality(fine) \in Nat
    BY <2>2, FS_Subset, FS_CardinalityType
  <2>4. labels \subseteq DOMAIN families[f]
    BY <1>c
  <2>5. QED
    BY <1>6, <2>1, <2>3, <2>4, PassedFinite, OccurrencesFinite
<1>8. Passed(s, "handled", id) \subseteq Passed(s, "handled", id)'
  BY <1>6, ReportPasses
<1>9. \A d \in Passed(s, "handled", id) : call'[d].status = call[d].status
  <2>1. CASE point # "handled"
    BY <1>4, <2>1 DEF Passed, Reports
  <2>2. CASE point = "handled"
    BY <1>4, <2>2 DEF Passed, Reports
  <2>3. QED
    BY <2>1, <2>2
<1>10. good \subseteq fine
  <2>1. ASSUME NEW d \in good PROVE (Succeeded(d) \/ Excused(d))'
    <3>1. call'[d].status = call[d].status /\ d \in Calls
      BY <1>9, <1>e DEF Passed
    <3>2. Succeeded(d)' = Succeeded(d)
      BY <3>1 DEF Succeeded
    <3>3. Excused(d)' = Excused(d)
      BY <1>3, <1>4, <3>1 DEF Excused
    <3>4. QED
      BY <1>e, <3>2, <3>3
  <2>2. QED
    BY <1>8, <1>e, <1>g, <2>1
<1>11. Cardinality(good) <= Cardinality(fine)
  BY <1>7, <1>10, FS_Subset
<1>12. CASE ~(Enabled /\ f = g)
  <2>1. families'[f] = families[f]
    <3>1. CASE ~Enabled
      BY <3>1 DEF Reports
    <3>2. CASE Enabled
      <4>1. f # g
        BY <1>12, <3>2
      <4>2. families' = [families EXCEPT ![g] = BagAdd(@, label)]
        BY <1>b, <3>2 DEF Reports
      <4>3. QED
        BY <1>6, <3>2, <4>1, <4>2, ReportKeepsBags DEF Reports
    <3>3. QED
      BY <3>1, <3>2
  <2>2. new = labels
    BY <1>c, <1>d, <2>1
  <2>3. Counted(f, labels)' = Counted(f, labels)
    BY <2>1 DEF Counted
  <2>4. Counted(f, new)' <= Cardinality(fine)
    BY <1>5, <1>7, <1>11, <2>2, <2>3
  <2>5. QED
    BY <1>a, <1>d, <1>g, <2>4 DEF Counted
<1>13. CASE Enabled /\ f = g
  <2>1. families' = [families EXCEPT ![f] = BagAdd(@, label)]
    BY <1>b, <1>13 DEF Reports
  <2>2. DOMAIN families'[f] = DOMAIN families[f] \cup {label}
    BY <1>6, <1>13, <2>1, ReportKeepsBags DEF Reports
  <2>3. new \subseteq DOMAIN families[f] \cup {label} /\ new \cap DOMAIN families[f] = labels
    BY <1>c, <1>d, <2>2
  <2>4. Counted(f, new)' = Counted(f, labels) + (IF label \in new THEN 1 ELSE 0)
    BY <1>6, <2>1, <2>3, ReportCounts
  <2>5. CASE label \notin new
    <3>1. Counted(f, new)' <= Cardinality(fine)
      BY <1>5, <1>7, <1>11, <2>4, <2>5
    <3>2. QED
      BY <1>a, <1>d, <1>g, <3>1 DEF Counted
  <2>6. CASE label \in new
    <3>1. /\ s = Side(c) /\ point = "handled" /\ id = Identity(Infos(c))
          /\ label = SetCallResult(RetCode(after.status), Infos(c))
          /\ label.code_type = "success"
      BY <1>6, <1>13, <1>d, <2>6 DEF Reports
    <3>2. Passed(s, "handled", id)' = Passed(s, "handled", id) \cup {c} /\ c \notin Passed(s, "handled", id)
      BY <3>1, ReportPasses
    <3>3. (Succeeded(c) \/ Excused(c))'
      <4>1. \/ after.status.framework = 0 /\ after.status.func = 0
            \/ \E code \in {after.status.framework, after.status.func} :
                 \E rule \in RulesOn(code, Infos(c).callee_service, Infos(c).callee_method) :
                   rule.type = "success"
        BY <1>1, <3>1, SuccessIsEarned
      <4>2. CASE after.status.framework = 0 /\ after.status.func = 0
        BY <1>4, <4>2 DEF Succeeded
      <4>3. CASE \E code \in {after.status.framework, after.status.func} :
                   \E rule \in RulesOn(code, Infos(c).callee_service, Infos(c).callee_method) :
                     rule.type = "success"
        BY <1>3, <1>4, <4>3 DEF Excused
      <4>4. QED
        BY <4>1, <4>2, <4>3
    <3>4. good \cup {c} \subseteq fine /\ c \notin good
      BY <1>10, <1>e, <1>g, <3>2, <3>3
    <3>5. Cardinality(good \cup {c}) = Cardinality(good) + 1
      BY <1>7, <3>4, FS_AddElement
    <3>6. Cardinality(good) + 1 <= Cardinality(fine)
      BY <1>7, <3>4, <3>5, FS_Subset
    <3>7. Counted(f, new)' <= Cardinality(fine)
      BY <1>5, <1>7, <2>4, <2>6, <3>6
    <3>8. QED
      BY <1>a, <1>d, <1>g, <3>7 DEF Counted
  <2>7. QED
    BY <2>5, <2>6
<1>14. QED
  BY <1>12, <1>13
-----------------------------------------------------------------------------
(* The steps. *)

CallRecord ==
  [phase : {"new", "started", "timed", "handled"}, started : BOOLEAN,
   names : Names, status : Statuses \cup {NoStatus}]

LEMMA EmptyFamily == DOMAIN <<>> = {} /\ <<>> \in [{} -> Nat \ {0}]
OBVIOUS

LEMMA InitEstablishes == Init => IInv
<1> SUFFICES ASSUME Init PROVE IInv
  OBVIOUS
<1>1. /\ plugin = "absent" /\ config \in Configs
      /\ call \in [Calls -> [phase : {"new"}, started : {FALSE}, names : Names,
                             status : {NoStatus}]]
      /\ DOMAIN families = Families /\ \A f \in Families : families[f] = <<>>
  BY DEF Init
<1>2. \A f \in Families : DOMAIN families[f] = {} /\ families[f] \in [{} -> Nat \ {0}]
  BY <1>1, EmptyFamily
<1>3. /\ {"server_handled_total", "client_handled_total"} \subseteq Families
      /\ \A s \in Sides : FamilyOf(s, "handled") \in Families
  BY DEF Families, Sides, FamilyOf
<1>4. ~Enabled
  BY <1>1 DEF Enabled
<1>5. TypeOK
  <2>1. call \in [Calls -> CallRecord]
    BY <1>1 DEF CallRecord
  <2>2. attr \in [Items -> [Labels -> [shape : {"none", "median"} \cup Shapes, count : Nat]]]
    BY DEF Init, Unset
  <2>3. report.result = "none"
    BY DEF Init
  <2>4. QED
    BY <1>1, <1>2, <1>3, <2>1, <2>2, <2>3 DEF TypeOK, CallRecord
<1>6. EmptyInv /\ EarlyInv /\ EveryCallIsCountedOnce
  BY <1>1, <1>2, <1>4 DEF EmptyInv, EarlyInv, EveryCallIsCountedOnce
<1>7. FiniteInv
  <2>1. \A f \in Families : Occurrences(families[f], DOMAIN families[f]) = {}
    BY <1>2 DEF Occurrences
  <2>2. QED
    BY <2>1, FS_EmptySet DEF FiniteInv
<1>8. ClassAsDocumented
  BY <1>2, <1>3 DEF ClassAsDocumented
<1>9. FailuresAreSeen
  <2> SUFFICES ASSUME NEW s \in Sides, NEW id
      PROVE  LET f == FamilyOf(s, "handled")
             IN  Counted(f, {l \in DOMAIN families[f] : Identity(l) = id /\ l.code_type = "success"})
                   <= Cardinality({c \in Passed(s, "handled", id) : Succeeded(c) \/ Excused(c)})
    BY DEF FailuresAreSeen
  <2> DEFINE f == FamilyOf(s, "handled")
             labels == {l \in DOMAIN families[f] : Identity(l) = id /\ l.code_type = "success"}
             good == {c \in Passed(s, "handled", id) : Succeeded(c) \/ Excused(c)}
  <2>1. labels = {}
    BY <1>2, <1>3
  <2>2. Occurrences(families[f], labels) = {}
    BY <2>1 DEF Occurrences
  <2>3. Counted(f, labels) = 0
    BY <2>2, FS_EmptySet DEF Counted
  <2>4. good \subseteq Passed(s, "handled", id)
    OBVIOUS
  <2>5. Cardinality(good) \in Nat
    BY <2>4, PassedFinite
  <2> HIDE DEF labels, good
  <2>6. Counted(f, labels) <= Cardinality(good)
    BY <2>3, <2>5
  <2>7. QED
    BY <2>6 DEF labels, good
<1>10. QED
  BY <1>5, <1>6, <1>7, <1>8, <1>9 DEF IInv

\* A step of the filters that is a report keeps the invariant.
LEMMA ReportPreserves ==
  ASSUME IInv, NEW c \in Calls, NEW point \in Points, NEW after \in CallRecord, NEW label,
         Reports(c, point, after, label), UNCHANGED <<attr, report>>
  PROVE  IInv'
<1>1. EveryCallIsCountedOnce'
  BY ReportIsCounted DEF IInv
<1>2. FailuresAreSeen'
  BY ReportedFailuresAreSeen DEF IInv
<1>3. /\ ClassAsDocumented'
      /\ DOMAIN families' = Families /\ \A f \in Families : IsBag(families'[f])
      /\ EmptyInv' /\ FiniteInv'
      /\ \A f \in {"server_handled_total", "client_handled_total"} :
           \A l \in DOMAIN families'[f] : l.code_type \in Types
  BY ReportIsClassed DEF IInv
<1>4. call' \in [Calls -> CallRecord]
  BY DEF IInv, TypeOK, Reports, CallRecord
<1>5. EarlyInv'
  BY DEF IInv, TypeOK, EarlyInv, Reports
<1>6. TypeOK'
  BY <1>3, <1>4 DEF IInv, TypeOK, Reports, CallRecord, IsBag
<1>7. QED
  BY <1>1, <1>2, <1>3, <1>5, <1>6 DEF IInv

LEMMA IdentityOfResult ==
  ASSUME NEW code, NEW infos
  PROVE  Identity(SetCallResult(code, infos)) = Identity(infos)
BY DEF Identity, SetCallResult

LEMMA ReportStartedTotalPreserves ==
  ASSUME IInv, NEW c \in Calls, ReportStartedTotal(c) PROVE IInv'
<1>a. PICK after : after = [call[c] EXCEPT !.phase = "started", !.started = TRUE]
  OBVIOUS
<1>b. PICK label : label = Infos(c)
  OBVIOUS
<1>1. call \in [Calls -> CallRecord] /\ call[c] \in CallRecord
  BY DEF IInv, TypeOK, CallRecord
<1>2. /\ after \in CallRecord /\ after.names = call[c].names /\ after.status = call[c].status
      /\ after.phase = "started" /\ after.started
  BY <1>1, <1>a DEF CallRecord
<1>3. call' = [call EXCEPT ![c] = after] /\ call'[c] = after
  BY <1>1, <1>a DEF ReportStartedTotal
<1>4. call[c].phase = "new" /\ plugin = "ready" /\ UNCHANGED <<plugin, config, attr, report>>
  BY DEF ReportStartedTotal
<1>5. ~HasPassed(c, "started") /\ HasPassed(c, "started")'
  BY <1>2, <1>3, <1>4 DEF HasPassed, IInv, EarlyInv
<1>6. \A p \in Points \ {"started"} : HasPassed(c, p)' = HasPassed(c, p)
  BY <1>2, <1>3, <1>4 DEF HasPassed, Points
<1>7. families' = IF Enabled
                  THEN [families EXCEPT ![FamilyOf(Side(c), "started")] = BagAdd(@, label)]
                  ELSE families
  <2>1. ModuleReportMap[IF c \in ServerCalls THEN "kServerStartedCount"
                                             ELSE "kClientStartedCount"]
          = FamilyOf(Side(c), "started")
    BY DEF ModuleReportMap, FamilyOf, Side
  <2>2. QED
    BY <1>b, <2>1 DEF ReportStartedTotal, ModuleReport
<1>8. Reports(c, "started", after, label)
  BY <1>b, <1>2, <1>3, <1>4, <1>5, <1>6, <1>7 DEF Reports
<1>9. QED
  BY <1>2, <1>4, <1>8, ReportPreserves DEF Points

LEMMA ReportHandledSecondsPreserves ==
  ASSUME IInv, NEW c \in Calls, ReportHandledSeconds(c) PROVE IInv'
<1>a. PICK after : after = [call[c] EXCEPT !.phase = "timed"]
  OBVIOUS
<1>b. PICK label : label = Infos(c)
  OBVIOUS
<1>1. call \in [Calls -> CallRecord] /\ call[c] \in CallRecord
  BY DEF IInv, TypeOK, CallRecord
<1>2. /\ after \in CallRecord /\ after.names = call[c].names /\ after.status = call[c].status
      /\ after.phase = "timed" /\ after.started = call[c].started
  BY <1>1, <1>a DEF CallRecord
<1>3. call' = [call EXCEPT ![c] = after] /\ call'[c] = after
  BY <1>1, <1>a DEF ReportHandledSeconds
<1>4. /\ call[c].phase \in {"new", "started"} /\ plugin = "ready"
      /\ UNCHANGED <<plugin, config, attr, report>>
  BY DEF ReportHandledSeconds
<1>5. ~HasPassed(c, "timed") /\ HasPassed(c, "timed")'
  BY <1>2, <1>3, <1>4 DEF HasPassed
<1>6. \A p \in Points \ {"timed"} : HasPassed(c, p)' = HasPassed(c, p)
  BY <1>2, <1>3, <1>4 DEF HasPassed, Points
<1>7. families' = IF Enabled
                  THEN [families EXCEPT ![FamilyOf(Side(c), "timed")] = BagAdd(@, label)]
                  ELSE families
  <2>1. ModuleReportMap[IF c \in ServerCalls THEN "kServerHandledTime"
                                             ELSE "kClientHandledTime"]
          = FamilyOf(Side(c), "timed")
    BY DEF ModuleReportMap, FamilyOf, Side
  <2>2. QED
    BY <1>b, <2>1 DEF ReportHandledSeconds, ModuleReport
<1>8. Reports(c, "timed", after, label)
  BY <1>b, <1>2, <1>3, <1>4, <1>5, <1>6, <1>7 DEF Reports
<1>9. QED
  BY <1>2, <1>4, <1>8, ReportPreserves DEF Points

LEMMA ReportHandledTotalPreserves ==
  ASSUME IInv, NEW c \in Calls, ReportHandledTotal(c) PROVE IInv'
<1>0. PICK status \in Statuses :
        /\ call' = [call EXCEPT ![c] = [@ EXCEPT !.phase = "handled", !.status = status]]
        /\ ModuleReport(IF c \in ServerCalls THEN "kServerHandledCount"
                                             ELSE "kClientHandledCount",
                        SetCallResult(RetCode(status), Infos(c)))
  BY DEF ReportHandledTotal
<1>a. PICK after : after = [call[c] EXCEPT !.phase = "handled", !.status = status]
  OBVIOUS
<1>b. PICK label : label = SetCallResult(RetCode(status), Infos(c))
  OBVIOUS
<1>1. call \in [Calls -> CallRecord] /\ call[c] \in CallRecord
  BY DEF IInv, TypeOK, CallRecord
<1>2. /\ after \in CallRecord /\ after.names = call[c].names /\ after.status = status
      /\ after.phase = "handled" /\ after.started = call[c].started
  BY <1>1, <1>a DEF CallRecord
<1>3. call' = [call EXCEPT ![c] = after] /\ call'[c] = after
  BY <1>0, <1>1, <1>a
<1>4. /\ call[c].phase = "timed" /\ plugin = "ready"
      /\ UNCHANGED <<plugin, config, attr, report>>
  BY DEF ReportHandledTotal
<1>5. ~HasPassed(c, "handled") /\ HasPassed(c, "handled")'
  BY <1>2, <1>3, <1>4 DEF HasPassed
<1>6. \A p \in Points \ {"handled"} : HasPassed(c, p)' = HasPassed(c, p)
  BY <1>2, <1>3, <1>4 DEF HasPassed, Points
<1>7. families' = IF Enabled
                  THEN [families EXCEPT ![FamilyOf(Side(c), "handled")] = BagAdd(@, label)]
                  ELSE families
  <2>1. ModuleReportMap[IF c \in ServerCalls THEN "kServerHandledCount"
                                             ELSE "kClientHandledCount"]
          = FamilyOf(Side(c), "handled")
    BY DEF ModuleReportMap, FamilyOf, Side
  <2>2. QED
    BY <1>0, <1>b, <2>1 DEF ModuleReport
<1>8. Identity(label) = Identity(Infos(c))
  BY <1>b, IdentityOfResult
<1>9. Reports(c, "handled", after, label)
  BY <1>b, <1>2, <1>3, <1>4, <1>5, <1>6, <1>7, <1>8 DEF Reports
<1>10. QED
  BY <1>2, <1>4, <1>9, ReportPreserves DEF Points

\* A report of a user touches its own metric only, and may end the process when
\* metrics are disabled.
LEMMA DataReportSteps ==
  ASSUME TypeOK, NEW policy, NEW labels \in Labels, NEW shape \in ShapesFor(policy),
         DataReport(policy, labels, shape)
  PROVE  /\ attr' \in [Items -> [Labels -> [shape : {"none", "median"} \cup Shapes, count : Nat]]]
         /\ report'.result \in {"none", "ok", "fail"}
         /\ plugin' = plugin \/ (plugin' = "crashed" /\ ~Enabled)
         /\ report'.result = "fail" => attr' = attr
         /\ attr' # attr =>
              /\ report'.result = "ok"
              /\ \A item \in Items, l \in Labels :
                   attr'[item][l].count =
                     attr[item][l].count +
                       (IF item = Item(report'.policy) /\ l = report'.labels THEN 1 ELSE 0)
<1> DEFINE Metric == [shape : {"none", "median"} \cup Shapes, count : Nat]
<1>1. attr \in [Items -> [Labels -> Metric]]
  BY DEF TypeOK
<1>2. Item(policy) \in Items
  BY DEF Item, Items
<1>3. CASE shape \in {"empty", "malformed"} /\ Answer(policy, labels, shape, "fail")
             /\ UNCHANGED <<plugin, attr>>
  BY <1>1, <1>3 DEF Answer
<1>4. CASE shape \notin {"empty", "malformed"} /\ Enabled /\ Observe(policy, labels, shape)
             /\ Answer(policy, labels, shape, "ok") /\ UNCHANGED plugin
  <2>1. shape \in {"none", "median"} \cup Shapes
    BY <1>4 DEF ShapesFor
  <2>a. PICK item : item = Item(policy)
    OBVIOUS
  <2>b. PICK old \in Metric : old = attr[item][labels]
    BY <1>1, <1>2, <2>a
  <2>c. PICK new : new = [shape |-> IF old.count = 0 THEN shape ELSE old.shape,
                          count |-> old.count + 1]
    OBVIOUS
  <2>2. new \in Metric /\ new.count = old.count + 1
    BY <2>1, <2>b, <2>c
  <2>3. attr' = [attr EXCEPT ![item][labels] = new]
    BY <1>4, <2>a, <2>b, <2>c DEF Observe
  <2>4. report'.result = "ok" /\ report'.policy = policy /\ report'.labels = labels
    BY <1>4 DEF Answer
  <2> HIDE DEF Metric
  <2>5. attr' \in [Items -> [Labels -> Metric]]
    BY <1>1, <1>2, <2>a, <2>2, <2>3
  <2>6. ASSUME NEW i \in Items, NEW l \in Labels
        PROVE  attr'[i][l] = IF i = item /\ l = labels THEN new ELSE attr[i][l]
    BY <1>1, <1>2, <2>a, <2>3
  <2>7. ASSUME NEW i \in Items, NEW l \in Labels PROVE attr[i][l].count \in Nat
    BY <1>1 DEF Metric
  <2>8. \A i \in Items, l \in Labels :
          attr'[i][l].count = attr[i][l].count + (IF i = item /\ l = labels THEN 1 ELSE 0)
    BY <2>b, <2>2, <2>6, <2>7
  <2>9. QED
    BY <1>4, <2>a, <2>4, <2>5, <2>8 DEF Metric
<1>5. CASE shape \notin {"empty", "malformed"} /\ ~Enabled /\ plugin' = "crashed"
             /\ Answer(policy, labels, shape, "none") /\ UNCHANGED attr
  BY <1>1, <1>5 DEF Answer
<1>6. QED
  BY <1>3, <1>4, <1>5 DEF DataReport

\* A step that leaves the calls and the families alone keeps the invariant:
\* metrics once enabled stay so, and become enabled before the first call.
LEMMA QuietPreserves ==
  ASSUME IInv, UNCHANGED <<config, call, families>>,
         plugin' \in {"absent", "registered", "ready", "crashed"},
         plugin' \in {"absent", "registered"} => plugin \in {"absent", "registered"},
         Enabled => Enabled', Enabled' => Enabled \/ plugin = "registered",
         attr' \in [Items -> [Labels -> [shape : {"none", "median"} \cup Shapes, count : Nat]]],
         report'.result \in {"none", "ok", "fail"}
  PROVE  IInv'
<1>2. TypeOK'
  BY DEF IInv, TypeOK
<1>3. EmptyInv' /\ FiniteInv'
  BY DEF IInv, EmptyInv, FiniteInv
<1>4. EarlyInv'
  BY DEF IInv, EarlyInv
<1>5. /\ \A c \in Calls : Infos(c)' = Infos(c) /\ Side(c)' = Side(c)
      /\ \A c \in Calls : \A p : HasPassed(c, p)' = HasPassed(c, p)
  BY DEF Infos, Side, HasPassed
<1>6. Identities' = Identities /\ \A s, p, id : Passed(s, p, id)' = Passed(s, p, id)
  BY <1>5 DEF Identities, Passed, Identity
<1>7. EveryCallIsCountedOnce'
  <2>1. CASE Enabled
    <3> SUFFICES ASSUME NEW s \in Sides, NEW p \in Points, NEW id \in Identities
        PROVE  LET f == FamilyOf(s, p)
               IN  Counted(f, {l \in DOMAIN families[f] : Identity(l) = id})'
                     = Cardinality(Passed(s, p, id)')
      BY <1>6 DEF EveryCallIsCountedOnce, FamilyOf, Identity
    <3>a. PICK f : f = FamilyOf(s, p)
      OBVIOUS
    <3>1. Counted(f, {l \in DOMAIN families[f] : Identity(l) = id})
            = Cardinality(Passed(s, p, id))
      BY <2>1, <3>a DEF IInv, EveryCallIsCountedOnce
    <3>2. Counted(f, {l \in DOMAIN families[f] : Identity(l) = id})'
            = Counted(f, {l \in DOMAIN families[f] : Identity(l) = id})
      BY DEF Counted, Identity
    <3>3. Passed(s, p, id)' = Passed(s, p, id)
      BY <1>6
    <3>4. QED
      BY <3>a, <3>1, <3>2, <3>3
  <2>2. CASE ~Enabled /\ plugin = "registered"
    <3> SUFFICES ASSUME NEW s \in Sides, NEW p \in Points, NEW id
        PROVE  LET f == FamilyOf(s, p)
               IN  Counted(f, {l \in DOMAIN families[f] : Identity(l) = id})'
                     = Cardinality(Passed(s, p, id)')
      BY DEF EveryCallIsCountedOnce, FamilyOf, Identity
    <3>a. PICK f : f = FamilyOf(s, p)
      OBVIOUS
    <3>1. f \in Families
      BY <3>a, FamiliesDiffer
    <3>2. DOMAIN families'[f] = {}
      BY <2>2, <3>1 DEF IInv, EmptyInv
    <3>3. Counted(f, {l \in DOMAIN families[f] : Identity(l) = id})' = 0
      <4>1. {l \in DOMAIN families'[f] : Identity(l) = id} = {}
        BY <3>2
      <4>2. Occurrences(families'[f], {}) = {}
        BY DEF Occurrences
      <4>3. QED
        BY <4>1, <4>2, FS_EmptySet DEF Counted
    <3>4. \A c \in Calls : ~HasPassed(c, p)
      BY <2>2 DEF IInv, EarlyInv, HasPassed, Points
    <3>5. Passed(s, p, id)' = {}
      <4>1. Passed(s, p, id) = {}
        BY <3>4 DEF Passed
      <4>2. QED
        BY <1>6, <4>1
    <3>6. Cardinality(Passed(s, p, id)') = 0
      BY <3>5, FS_EmptySet
    <3>7. QED
      BY <3>a, <3>3, <3>6
  <2>3. CASE ~Enabled'
    BY <2>3 DEF EveryCallIsCountedOnce
  <2>4. QED
    BY <2>1, <2>2, <2>3
<1>8. /\ CodesAreInts' = CodesAreInts
      /\ \A code, service, method :
           RulesOn(code, service, method)' = RulesOn(code, service, method)
  BY DEF CodesAreInts, RulesOn
<1>9. ClassAsDocumented'
  BY <1>8 DEF IInv, ClassAsDocumented
<1>10. \A c \in Calls : Succeeded(c)' = Succeeded(c) /\ Excused(c)' = Excused(c)
  BY <1>5, <1>8 DEF Succeeded, Excused
<1>11. FailuresAreSeen'
  <2> SUFFICES ASSUME CodesAreInts, NEW s \in Sides, NEW id \in Identities
      PROVE  LET f == FamilyOf(s, "handled")
             IN  Counted(f, {l \in DOMAIN families[f] : Identity(l) = id /\ l.code_type = "success"})'
                   <= Cardinality({c \in Passed(s, "handled", id)' : (Succeeded(c) \/ Excused(c))'})
    BY <1>6, <1>8 DEF FailuresAreSeen, FamilyOf, Identity
  <2>1. {c \in Passed(s, "handled", id)' : (Succeeded(c) \/ Excused(c))'}
          = {c \in Passed(s, "handled", id) : Succeeded(c) \/ Excused(c)}
    <3>1. Passed(s, "handled", id) \subseteq Calls
      BY DEF Passed
    <3>2. QED
      BY <1>6, <1>10, <3>1
  <2>2. QED
    BY <2>1 DEF IInv, FailuresAreSeen, Counted, FamilyOf, Identity
<1>12. QED
  BY <1>2, <1>3, <1>4, <1>7, <1>9, <1>11 DEF IInv

LEMMA DataReportPreserves ==
  ASSUME IInv, NEW policy, NEW labels \in Labels, NEW shape \in ShapesFor(policy),
         DataReport(policy, labels, shape), UNCHANGED <<config, call, families>>
  PROVE  IInv'
<1>1. /\ attr' \in [Items -> [Labels -> [shape : {"none", "median"} \cup Shapes, count : Nat]]]
      /\ report'.result \in {"none", "ok", "fail"}
      /\ plugin' = plugin \/ (plugin' = "crashed" /\ ~Enabled)
  BY DataReportSteps DEF IInv
<1>2. plugin \in {"absent", "registered", "ready", "crashed"}
  BY DEF IInv, TypeOK
<1>3. Enabled' = Enabled
  BY <1>1 DEF Enabled
<1>4. QED
  BY <1>1, <1>2, <1>3, QuietPreserves

LEMMA FailedReportPreserves ==
  ASSUME IInv, NEW policy, NEW labels, NEW shape, Answer(policy, labels, shape, "fail"),
         UNCHANGED <<plugin, attr, config, call, families>>
  PROVE  IInv'
<1>1. report'.result = "fail"
  BY DEF Answer
<1>2. /\ plugin \in {"absent", "registered", "ready", "crashed"} /\ Enabled' = Enabled
      /\ attr' \in [Items -> [Labels -> [shape : {"none", "median"} \cup Shapes, count : Nat]]]
  BY DEF IInv, TypeOK, Enabled
<1>3. QED
  BY <1>1, <1>2, QuietPreserves

LEMMA StepPreserves == IInv /\ [Next]_vars => IInv'
<1> SUFFICES ASSUME IInv, [Next]_vars PROVE IInv'
  OBVIOUS
<1>0. /\ plugin \in {"absent", "registered", "ready", "crashed"}
      /\ attr \in [Items -> [Labels -> [shape : {"none", "median"} \cup Shapes, count : Nat]]]
      /\ report.result \in {"none", "ok", "fail"}
  BY DEF IInv, TypeOK
<1>1. CASE Register
  <2>1. ~Enabled /\ ~Enabled'
    BY <1>1 DEF Register, Enabled
  <2>2. QED
    BY <1>0, <1>1, <2>1, QuietPreserves DEF Register
<1>2. CASE InitMetrics
  <2>1. ~Enabled
    BY <1>2 DEF InitMetrics, Enabled
  <2>2. QED
    BY <1>0, <1>2, <2>1, QuietPreserves DEF InitMetrics
<1>3. ASSUME NEW c \in Calls,
             ReportStartedTotal(c) \/ ReportHandledSeconds(c) \/ ReportHandledTotal(c)
      PROVE  IInv'
  BY <1>3, ReportStartedTotalPreserves, ReportHandledSecondsPreserves,
     ReportHandledTotalPreserves
<1>4. ASSUME NEW policy \in Policies, NEW labels \in Labels, NEW shape \in ShapesFor(policy),
             ReportMetricsInfo(policy, labels, shape)
      PROVE  IInv'
  BY <1>4, DataReportPreserves, FailedReportPreserves DEF ReportMetricsInfo
<1>5. ASSUME NEW policy \in Policies \cup {"other"}, NEW labels \in Labels,
             NEW shape \in ShapesFor(policy), AttrReport(policy, labels, shape)
      PROVE  IInv'
  BY <1>5, DataReportPreserves, FailedReportPreserves DEF AttrReport
<1>6. CASE UNCHANGED vars
  <2>1. UNCHANGED <<plugin, config, call, families, attr, report>>
    BY <1>6 DEF vars
  <2>2. Enabled' = Enabled
    BY <2>1 DEF Enabled
  <2>3. QED
    BY <1>0, <2>1, <2>2, QuietPreserves
<1>7. QED
  BY <1>1, <1>2, <1>3, <1>4, <1>5, <1>6 DEF Next

\* Each step that touches user metrics or answers a user is all or nothing.
LEMMA StepIsAllOrNothing ==
  ASSUME TypeOK, [Next]_vars
  PROVE  [/\ report'.result = "fail" => attr' = attr
          /\ attr' # attr =>
               /\ report'.result = "ok"
               /\ \A item \in Items, l \in Labels :
                    attr'[item][l].count =
                      attr[item][l].count +
                        (IF item = Item(report'.policy) /\ l = report'.labels THEN 1 ELSE 0)
         ]_<<attr, report>>
<1>1. CASE UNCHANGED <<attr, report>>
  BY <1>1
<1>2. ASSUME NEW policy, NEW labels \in Labels, NEW shape \in ShapesFor(policy),
             DataReport(policy, labels, shape) \/ UNCHANGED attr
      PROVE  /\ report'.result = "fail" => attr' = attr
             /\ attr' # attr =>
                  /\ report'.result = "ok"
                  /\ \A item \in Items, l \in Labels :
                       attr'[item][l].count =
                         attr[item][l].count +
                           (IF item = Item(report'.policy) /\ l = report'.labels THEN 1 ELSE 0)
  BY <1>2, DataReportSteps
<1>3. ASSUME NEW policy \in Policies, NEW labels \in Labels, NEW shape \in ShapesFor(policy),
             ReportMetricsInfo(policy, labels, shape)
      PROVE  DataReport(policy, labels, shape) \/ UNCHANGED attr
  BY <1>3 DEF ReportMetricsInfo
<1>4. ASSUME NEW policy \in Policies \cup {"other"}, NEW labels \in Labels,
             NEW shape \in ShapesFor(policy), AttrReport(policy, labels, shape)
      PROVE  DataReport(policy, labels, shape) \/ UNCHANGED attr
  BY <1>4 DEF AttrReport
<1>5. Register \/ InitMetrics
        \/ (\E c \in Calls :
              ReportStartedTotal(c) \/ ReportHandledSeconds(c) \/ ReportHandledTotal(c))
        \/ UNCHANGED vars
      => UNCHANGED <<attr, report>>
  BY DEF Register, InitMetrics, ReportStartedTotal, ReportHandledSeconds,
         ReportHandledTotal, vars
<1>6. QED
  BY <1>1, <1>2, <1>3, <1>4, <1>5 DEF Next
-----------------------------------------------------------------------------
(* The results. *)

\* The invariant is inductive.
THEOREM MetricsInvariance == Spec => []IInv
BY InitEstablishes, StepPreserves, PTL DEF Spec

\* Every variable keeps its type: no label set of a handled call has a class
\* other than the three, whatever types the rules of a configuration have.
THEOREM MetricsTypeCorrect == Spec => []TypeOK
<1>1. IInv => TypeOK
  BY DEF IInv
<1>2. QED
  BY <1>1, MetricsInvariance, PTL

\* Each call is counted once at each point it passes, in the family of its side
\* and under its own names, however calls interleave (ModuleReport).
THEOREM CountsAreExact == Spec => []EveryCallIsCountedOnce
<1>1. IInv => EveryCallIsCountedOnce
  BY DEF IInv
<1>2. QED
  BY <1>1, MetricsInvariance, PTL

\* Classes are those README.md:606-635 lists, for any rules whose codes are ints.
THEOREM ClassesAreDocumented == Spec => []ClassAsDocumented
<1>1. IInv => ClassAsDocumented
  BY DEF IInv
<1>2. QED
  BY <1>1, MetricsInvariance, PTL

\* A side never counts more successes than calls that earned one.
THEOREM FailuresAreNotHidden == Spec => []FailuresAreSeen
<1>1. IInv => FailuresAreSeen
  BY DEF IInv
<1>2. QED
  BY <1>1, MetricsInvariance, PTL

\* A report of a user that fails changes no metric, one that succeeds adds one
\* observation to one metric.
THEOREM UserReportsAreAtomic == Spec => ReportIsAllOrNothing
<1>1. IInv => TypeOK
  BY DEF IInv
<1>2. QED
  BY <1>1, MetricsInvariance, StepIsAllOrNothing, PTL DEF Spec, ReportIsAllOrNothing
==============================================================================
