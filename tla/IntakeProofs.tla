---------------------------- MODULE IntakeProofs ----------------------------
(***************************************************************************)
(* The intake of an evaluation, for every family of settings: the plugins  *)
(* that are active (PluginInv), the changes of an accepted changeset that  *)
(* apply (AcceptedInv), what the preflight has foretold of the schema of   *)
(* the shadow collection (SchemaInv), and the files of its configset       *)
(* (PatchInv).                                                             *)
(***************************************************************************)
EXTENDS EvaluationProofs

-----------------------------------------------------------------------------
(* plugins/registry.py: a registry after one plugin more, which is taken   *)
(* in or refused.                                                          *)
Offered(registry, plugin) == IF Registers(registry, plugin) THEN Append(registry, plugin) ELSE registry

(* register_entry_points: the plugins are offered one after the other.     *)
LEMMA RegisterEachIs ==
  ASSUME NEW P, NEW S, S = Seq(P), NEW registry \in S, NEW list \in Seq(P)
  PROVE  \E c \in [0..Len(list) -> S] :
           /\ c[0] = registry /\ c[Len(list)] = RegisterEach(registry, list)
           /\ \A n \in 1..Len(list) : c[n] = Offered(c[n - 1], list[n])
<1>1. PICK k \in Nat : k = Len(list) /\ DOMAIN list = 1..k
  OBVIOUS
<1>2. PICK step : step = [p \in (1..k) \X S |-> Offered(p[2], list[p[1]])]
  OBVIOUS
<1>3. step \in [(1..k) \X S -> S]
  <2>1. ASSUME NEW n \in 1..k, NEW old \in S PROVE Offered(old, list[n]) \in S
    BY <1>1 DEF Offered
  <2>. QED
    BY <1>2, <2>1
<1>4. PICK f \in [SUBSET (1..k) -> S] : Folds(f, registry, step, k)
  BY <1>1, <1>3, FoldExists
<1>5. \A s \in SUBSET (1..k) : s # {} => Max(s) \in 1..k /\ s \ {Max(s)} \in SUBSET (1..k)
  BY GreatestNumber
<1>. DEFINE Is(it) == it = [s \in SUBSET (1..k) |->
                           IF s = {} THEN registry ELSE Offered(it[s \ {Max(s)}], list[Max(s)])]
<1>6. RegisterEach(registry, list) = (CHOOSE it : Is(it))[1..k]
  BY <1>1 DEF RegisterEach, FoldLeft, MapThenFoldSet, Offered
<1>7. Is(f)
  <2>1. f = [s \in SUBSET (1..k) |-> f[s]]
    OBVIOUS
  <2>2. ASSUME NEW s \in SUBSET (1..k)
        PROVE  f[s] = IF s = {} THEN registry ELSE Offered(f[s \ {Max(s)}], list[Max(s)])
    <3>1. CASE s = {}
      BY <1>4, <3>1 DEF Folds
    <3>2. CASE s # {}
      <4>1. f[s] = step[<<Max(s), f[s \ {Max(s)}]>>]
        BY <1>4, <3>2 DEF Folds
      <4>2. Max(s) \in 1..k /\ f[s \ {Max(s)}] \in S
        BY <1>4, <1>5, <3>2
      <4>. QED
        BY <1>2, <3>2, <4>1, <4>2
    <3>. QED
      BY <3>1, <3>2
  <2>. QED
    BY <2>1, <2>2
<1>8. PICK it : it = (CHOOSE any : Is(any))
  OBVIOUS
<1>9. Is(it)
  <2>. HIDE DEF Is
  <2>. QED
    BY <1>7, <1>8, Zenon
<1>10. \A s \in SUBSET (1..k) : it[s] = IF s = {} THEN registry ELSE Offered(it[s \ {Max(s)}], list[Max(s)])
  BY <1>9, Zenon
<1>11. Unfolds(it, registry, step, k, S)
  <2>1. it[{}] = registry
    <3>1. {} \in SUBSET (1..k)
      OBVIOUS
    <3>. QED
      BY <1>10, <3>1, Zenon
  <2>2. ASSUME NEW s \in SUBSET (1..k), s # {}, it[s \ {Max(s)}] \in S
        PROVE  it[s] = step[<<Max(s), it[s \ {Max(s)}]>>]
    <3>1. PICK m \in 1..k : m = Max(s)
      BY <1>5, <2>2
    <3>2. PICK old \in S : old = it[s \ {Max(s)}]
      BY <2>2
    <3>3. it[s] = Offered(old, list[m])
      BY <1>10, <2>2, <3>1, <3>2, Zenon
    <3>4. step[<<m, old>>] = Offered(old, list[m])
      BY <1>2
    <3>. QED
      BY <3>1, <3>2, <3>3, <3>4
  <2>. QED
    BY <2>1, <2>2 DEF Unfolds
<1>12. PICK c \in [0..k -> S] : c[k] = it[1..k] /\ Chain(c, registry, step, k)
  BY <1>1, <1>3, <1>11, FoldChain
<1>13. ASSUME NEW n \in 1..k PROVE c[n] = Offered(c[n - 1], list[n])
  <2>1. PICK old \in S : old = c[n - 1]
    OBVIOUS
  <2>2. step[<<n, old>>] = Offered(old, list[n])
    BY <1>2
  <2>. QED
    BY <1>12, <2>1, <2>2 DEF Chain
<1>14. c[k] = RegisterEach(registry, list) /\ c[0] = registry
  BY <1>6, <1>8, <1>12 DEF Chain
<1>. QED
  BY <1>1, <1>12, <1>13, <1>14

(* plugins/loader.py: what _register_from_module has after one plugin more *)
(* of a module.                                                            *)
Adding(f, plugin) ==
  IF ~f.ok THEN f
  ELSE IF Registers(f.registry, plugin) THEN [f EXCEPT !.registry = Append(@, plugin)]
  ELSE [f EXCEPT !.ok = FALSE]

(* What the discovery has at a time.                                       *)
Finds(P, I) == [registry : Seq(P), ok : BOOLEAN, issues : SUBSET I]

(* The plugins of a module are taken in up to the first that raises.       *)
LEMMA RegisterModuleIs ==
  ASSUME NEW P, NEW I, NEW S, S = Finds(P, I),
         NEW found \in S, NEW list \in Seq(P)
  PROVE  \E c \in [0..Len(list) -> S] :
           /\ c[0] = [found EXCEPT !.ok = TRUE] /\ c[Len(list)] = RegisterModule(found, list)
           /\ \A n \in 1..Len(list) : c[n] = Adding(c[n - 1], list[n])
<1>0. ASSUME NEW old \in S
      PROVE  \E registry, ok, issues : /\ registry \in Seq(P) /\ ok \in BOOLEAN /\ issues \in SUBSET I
                                      /\ old = [registry |-> registry, ok |-> ok, issues |-> issues]
  <2>1. /\ old = [registry |-> old.registry, ok |-> old.ok, issues |-> old.issues]
        /\ old.registry \in Seq(P) /\ old.ok \in BOOLEAN /\ old.issues \in SUBSET I
    BY DEF Finds
  <2>. QED
    BY <2>1, Zenon
<1>1. PICK k \in Nat, base \in S : k = Len(list) /\ DOMAIN list = 1..k /\ base = [found EXCEPT !.ok = TRUE]
  <2>1. PICK base : base = [found EXCEPT !.ok = TRUE]
    OBVIOUS
  <2>2. base \in S
    BY <2>1 DEF Finds
  <2>3. Len(list) \in Nat /\ DOMAIN list = 1..Len(list)
    OBVIOUS
  <2>. QED
    BY <2>1, <2>2, <2>3
<1>2. PICK step : step = [p \in (1..k) \X S |-> Adding(p[2], list[p[1]])]
  OBVIOUS
<1>3. step \in [(1..k) \X S -> S]
  <2>1. ASSUME NEW n \in 1..k, NEW old \in S PROVE Adding(old, list[n]) \in S
    <3>1. PICK plugin \in P : plugin = list[n]
      BY <1>1
    <3>2. PICK registry, ok, issues : /\ registry \in Seq(P) /\ ok \in BOOLEAN /\ issues \in SUBSET I
                                      /\ old = [registry |-> registry, ok |-> ok, issues |-> issues]
      BY <1>0
    <3>3. PICK more : more = Append(registry, plugin) /\ more \in Seq(P)
      <4>1. \A some \in Seq(P), p \in P : Append(some, p) \in Seq(P)
        OBVIOUS
      <4>. QED
        BY <3>2, <4>1
    <3>4. \/ Adding(old, plugin) = old
          \/ Adding(old, plugin) = [registry |-> more, ok |-> ok, issues |-> issues]
          \/ Adding(old, plugin) = [registry |-> registry, ok |-> FALSE, issues |-> issues]
      BY <3>2, <3>3 DEF Adding
    <3>5. /\ [registry |-> more, ok |-> ok, issues |-> issues] \in S
          /\ [registry |-> registry, ok |-> FALSE, issues |-> issues] \in S
      BY <3>2, <3>3 DEF Finds
    <3>. QED
      BY <3>1, <3>4, <3>5
  <2>. QED
    BY <1>2, <2>1
<1>4. PICK f \in [SUBSET (1..k) -> S] : Folds(f, base, step, k)
  BY <1>1, <1>3, FoldExists
<1>5. \A s \in SUBSET (1..k) : s # {} => Max(s) \in 1..k /\ s \ {Max(s)} \in SUBSET (1..k)
  BY GreatestNumber
<1>. DEFINE Is(it) == it = [s \in SUBSET (1..k) |->
                           IF s = {} THEN base ELSE Adding(it[s \ {Max(s)}], list[Max(s)])]
<1>6. RegisterModule(found, list) = (CHOOSE it : Is(it))[1..k]
  BY <1>1 DEF RegisterModule, FoldLeft, MapThenFoldSet, Adding
<1>7. Is(f)
  <2>1. f = [s \in SUBSET (1..k) |-> f[s]]
    OBVIOUS
  <2>2. ASSUME NEW s \in SUBSET (1..k)
        PROVE  f[s] = IF s = {} THEN base ELSE Adding(f[s \ {Max(s)}], list[Max(s)])
    <3>1. CASE s = {}
      BY <1>4, <3>1 DEF Folds
    <3>2. CASE s # {}
      <4>1. f[s] = step[<<Max(s), f[s \ {Max(s)}]>>]
        BY <1>4, <3>2 DEF Folds
      <4>2. Max(s) \in 1..k /\ f[s \ {Max(s)}] \in S
        BY <1>4, <1>5, <3>2
      <4>. QED
        BY <1>2, <3>2, <4>1, <4>2
    <3>. QED
      BY <3>1, <3>2
  <2>. QED
    BY <2>1, <2>2
<1>8. PICK it : it = (CHOOSE any : Is(any))
  OBVIOUS
<1>9. Is(it)
  <2>. HIDE DEF Is
  <2>. QED
    BY <1>7, <1>8, Zenon
<1>10. \A s \in SUBSET (1..k) : it[s] = IF s = {} THEN base ELSE Adding(it[s \ {Max(s)}], list[Max(s)])
  BY <1>9, Zenon
<1>11. Unfolds(it, base, step, k, S)
  <2>1. it[{}] = base
    <3>1. {} \in SUBSET (1..k)
      OBVIOUS
    <3>. QED
      BY <1>10, <3>1, Zenon
  <2>2. ASSUME NEW s \in SUBSET (1..k), s # {}, it[s \ {Max(s)}] \in S
        PROVE  it[s] = step[<<Max(s), it[s \ {Max(s)}]>>]
    <3>1. PICK m \in 1..k : m = Max(s)
      BY <1>5, <2>2
    <3>2. PICK old \in S : old = it[s \ {Max(s)}]
      BY <2>2
    <3>3. it[s] = Adding(old, list[m])
      BY <1>10, <2>2, <3>1, <3>2, Zenon
    <3>4. step[<<m, old>>] = Adding(old, list[m])
      BY <1>2
    <3>. QED
      BY <3>1, <3>2, <3>3, <3>4
  <2>. QED
    BY <2>1, <2>2 DEF Unfolds
<1>12. PICK c \in [0..k -> S] : c[k] = it[1..k] /\ Chain(c, base, step, k)
  BY <1>1, <1>3, <1>11, FoldChain
<1>13. ASSUME NEW n \in 1..k PROVE c[n] = Adding(c[n - 1], list[n])
  <2>1. PICK old \in S : old = c[n - 1]
    OBVIOUS
  <2>2. step[<<n, old>>] = Adding(old, list[n])
    BY <1>2
  <2>. QED
    BY <1>12, <2>1, <2>2 DEF Chain
<1>14. c[k] = RegisterModule(found, list) /\ c[0] = base
  BY <1>6, <1>8, <1>12 DEF Chain
<1>. QED
  BY <1>1, <1>12, <1>13, <1>14

(* The list as RegisterModule leaves it: it grows by usable plugins only,  *)
(* and by all of a module that cannot raise.                               *)
Grows(old, new, list) ==
  /\ ToSet(old) \subseteq ToSet(new)
  /\ \A p \in ToSet(new) : p \in ToSet(old) \/ (p \in ToSet(list) /\ p.usable)

Raises(known, list) ==
  \E n \in DOMAIN list :
    \/ ~list[n].usable
    \/ \E p \in known \cup {list[m] : m \in 1..(n - 1)} : p.name = list[n].name

(* A plugin that is taken in is the last one.                              *)
LEMMA AppendRange ==
  ASSUME NEW P, NEW list \in Seq(P), NEW p \in P
  PROVE  Append(list, p) \in Seq(P) /\ ToSet(Append(list, p)) = ToSet(list) \cup {p}
<1>1. PICK more : more = Append(list, p) /\ more \in Seq(P)
  <2>1. Append(list, p) \in Seq(P)
    OBVIOUS
  <2>. QED
    BY <2>1
<1>2. Len(more) = Len(list) + 1 /\ more[Len(more)] = p /\ \A i \in 1..Len(list) : more[i] = list[i]
  BY <1>1
<1>3. ASSUME NEW x PROVE x \in ToSet(more) <=> x \in ToSet(list) \/ x = p
  <2>1. x \in ToSet(more) <=> \E i \in 1..Len(more) : more[i] = x
    BY <1>1, ToSetIs
  <2>2. x \in ToSet(list) <=> \E i \in 1..Len(list) : list[i] = x
    BY ToSetIs
  <2>. QED
    BY <1>2, <2>1, <2>2
<1>. QED
  BY <1>1, <1>3

(* What register_entry_points leaves is a registry that has grown.         *)
LEMMA RegisterEachGrows ==
  ASSUME NEW P, NEW registry \in Seq(P), NEW list \in Seq(P)
  PROVE  RegisterEach(registry, list) \in Seq(P) /\ Grows(registry, RegisterEach(registry, list), list)
<1>1. PICK k, S : k \in Nat /\ k = Len(list) /\ DOMAIN list = 1..k /\ S = Seq(P)
  OBVIOUS
<1>2. PICK c \in [0..k -> S] :
        /\ c[0] = registry /\ c[k] = RegisterEach(registry, list)
        /\ \A n \in 1..k : c[n] = Offered(c[n - 1], list[n])
  BY <1>1, RegisterEachIs
<1>3. PICK Good : Good = {n \in 0..k : Grows(registry, c[n], list)}
  OBVIOUS
<1>4. 0 \in Good
  <2>1. Grows(registry, registry, list)
    BY DEF Grows
  <2>. QED
    BY <1>1, <1>2, <1>3, <2>1
<1>5. ASSUME NEW n \in 0..(k - 1), n \in Good PROVE n + 1 \in Good
  <2>1. n \in 0..k /\ n + 1 \in 1..k /\ (n + 1) - 1 = n /\ n + 1 \in 0..k
    BY <1>1
  <2>2. PICK old \in Seq(P), p \in P : old = c[n] /\ p = list[n + 1] /\ p \in ToSet(list)
    <3>1. list[n + 1] \in P /\ list[n + 1] \in ToSet(list)
      BY <1>1, <2>1 DEF ToSet
    <3>2. c[n] \in Seq(P)
      BY <1>1
    <3>. QED
      BY <3>1, <3>2
  <2>3. c[n + 1] = Offered(old, p)
    BY <1>2, <2>1, <2>2
  <2>4. Grows(registry, old, list)
    BY <1>3, <1>5, <2>2
  <2>5. ToSet(Append(old, p)) = ToSet(old) \cup {p}
    BY AppendRange
  <2>6. CASE Registers(old, p)
    <3>1. c[n + 1] = Append(old, p) /\ p.usable
      BY <2>3, <2>6 DEF Offered, Registers
    <3>2. Grows(registry, c[n + 1], list)
      BY <2>2, <2>4, <2>5, <3>1 DEF Grows
    <3>. QED
      BY <1>3, <2>1, <3>2
  <2>7. CASE ~Registers(old, p)
    BY <1>3, <2>1, <2>3, <2>4, <2>7 DEF Offered
  <2>. QED
    BY <2>6, <2>7
<1>6. k \in Good
  <2>1. 0..k \subseteq Good
    BY <1>1, <1>4, <1>5, ChainInduction
  <2>. QED
    BY <1>1, <2>1
<1>. QED
  BY <1>1, <1>2, <1>3, <1>6

(* What a module leaves is a registry that has grown, and all of it where  *)
(* nothing of it raises.                                                   *)
LEMMA RegisterModuleGrows ==
  ASSUME NEW P, NEW I, NEW S, S = Finds(P, I),
         NEW found \in S, NEW list \in Seq(P), NEW known, ToSet(found.registry) \subseteq known,
         NEW new, new = RegisterModule(found, list)
  PROVE  /\ new \in S /\ Grows(found.registry, new.registry, list)
         /\ ~Raises(known, list) => new.ok /\ ToSet(list) \subseteq ToSet(new.registry)
<1>1. PICK k : k \in Nat /\ k = Len(list) /\ DOMAIN list = 1..k
  OBVIOUS
<1>2. PICK c \in [0..k -> S] :
        /\ c[0] = [found EXCEPT !.ok = TRUE] /\ c[k] = new
        /\ \A n \in 1..k : c[n] = Adding(c[n - 1], list[n])
  <2>1. \E c \in [0..Len(list) -> S] :
           /\ c[0] = [found EXCEPT !.ok = TRUE] /\ c[Len(list)] = RegisterModule(found, list)
           /\ \A n \in 1..Len(list) : c[n] = Adding(c[n - 1], list[n])
    BY RegisterModuleIs
  <2>. QED
    BY <1>1, <2>1
<1>. DEFINE HoldsAt(n) ==
       /\ Grows(found.registry, c[n].registry, list)
       /\ ~Raises(known, list) =>
            /\ c[n].ok /\ \A m \in 1..n : list[m] \in ToSet(c[n].registry)
            /\ ToSet(c[n].registry) \subseteq known \cup {list[m] : m \in 1..n}
<1>3. PICK Good : Good = {n \in 0..k : HoldsAt(n)}
  OBVIOUS
<1>4. 0 \in Good
  <2>1. c[0].registry = found.registry /\ c[0].ok
    BY <1>2 DEF Finds
  <2>2. Grows(found.registry, found.registry, list)
    BY DEF Grows
  <2>3. 1..0 = {} /\ 0 \in 0..k
    BY <1>1
  <2>. QED
    BY <1>3, <2>1, <2>2, <2>3
<1>5. ASSUME NEW n \in 0..(k - 1), n \in Good PROVE n + 1 \in Good
  <2>1. n \in 0..k /\ n + 1 \in 1..k /\ (n + 1) - 1 = n /\ n + 1 \in 0..k
    BY <1>1
  <2>2. PICK p : p \in P /\ p = list[n + 1] /\ p \in ToSet(list)
    BY <1>1, <2>1 DEF ToSet
  <2>3. PICK old : old = c[n] /\ old \in S /\ old.registry \in Seq(P)
    BY <2>1 DEF Finds
  <2>4. c[n + 1] = Adding(old, p)
    BY <1>2, <2>1, <2>2, <2>3
  <2>5. HoldsAt(n)
    BY <1>3, <1>5
  <2>6. ToSet(Append(old.registry, p)) = ToSet(old.registry) \cup {p}
    BY <2>2, <2>3, AppendRange
  <2>7. CASE old.ok /\ Registers(old.registry, p)
    <3>1. c[n + 1] = [old EXCEPT !.registry = Append(@, p)] /\ p.usable
      BY <2>4, <2>7 DEF Adding, Registers
    <3>2. PICK now : now = c[n + 1] /\ now.registry = Append(old.registry, p) /\ now.ok
      <4>1. c[n + 1].registry = Append(old.registry, p) /\ c[n + 1].ok = old.ok
        BY <2>3, <3>1 DEF Finds
      <4>. QED
        BY <2>7, <4>1
    <3>3. Grows(found.registry, now.registry, list)
      BY <2>2, <2>3, <2>5, <2>6, <3>1, <3>2 DEF Grows
    <3>4. ASSUME ~Raises(known, list)
          PROVE  /\ \A m \in 1..(n + 1) : list[m] \in ToSet(now.registry)
                 /\ ToSet(now.registry) \subseteq known \cup {list[m] : m \in 1..(n + 1)}
      <4>1. \A m \in 1..(n + 1) : m \in 1..n \/ m = n + 1
        OBVIOUS
      <4>2. \A m \in 1..n : m \in 1..(n + 1)
        OBVIOUS
      <4>. QED
        BY <2>2, <2>3, <2>5, <2>6, <3>2, <3>4, <4>1, <4>2
    <3>. QED
      BY <1>3, <2>1, <3>2, <3>3, <3>4
  <2>8. CASE ~(old.ok /\ Registers(old.registry, p))
    <3>1. c[n + 1].registry = old.registry
      BY <2>3, <2>4, <2>8 DEF Adding, Finds
    <3>2. Raises(known, list)
      <4>1. SUFFICES ASSUME ~Raises(known, list) PROVE FALSE
        OBVIOUS
      <4>2. old.ok /\ ToSet(old.registry) \subseteq known \cup {list[m] : m \in 1..n}
        BY <2>3, <2>5, <4>1
      <4>3. n + 1 \in DOMAIN list
        BY <1>1, <2>1
      <4>4. p.usable /\ \A q \in known \cup {list[m] : m \in 1..n} : q.name # p.name
        BY <2>1, <2>2, <4>1, <4>3 DEF Raises
      <4>5. Registers(old.registry, p)
        BY <4>2, <4>4 DEF Registers, ToSet
      <4>. QED
        BY <2>8, <4>2, <4>5
    <3>. QED
      BY <1>3, <2>1, <2>3, <2>5, <3>1, <3>2
  <2>. QED
    BY <2>7, <2>8
<1>6. 0..k \subseteq Good
  <2>. HIDE DEF HoldsAt
  <2>. QED
    BY <1>1, <1>4, <1>5, ChainInduction
<1>7. HoldsAt(k) /\ new \in S
  BY <1>1, <1>2, <1>3, <1>6
<1>8. \A x \in ToSet(list) : \E m \in 1..k : list[m] = x
  BY <1>1 DEF ToSet
<1>. QED
  BY <1>2, <1>7, <1>8

(* What _load_from_plugin_paths has after one path more.                   *)
OnPath(f, i, paths) ==
  LET module == RegisterModule(f, paths[i].plugins)
  IN  IF ~paths[i].exists THEN [f EXCEPT !.issues = @ \cup {<<"load", i>>}]
      ELSE IF module.ok THEN module
      ELSE [module EXCEPT !.issues = @ \cup {<<"load", i>>}]

(* An issue more is an issue.                                              *)
LEMMA NotedType ==
  ASSUME NEW P, NEW I, NEW issue \in I, NEW g \in Finds(P, I)
  PROVE  [g EXCEPT !.issues = @ \cup {issue}] \in Finds(P, I)
BY DEF Finds

(* What a path leaves is found, too.                                       *)
LEMMA OnPathType ==
  ASSUME NEW P, NEW I, NEW S, S = Finds(P, I), NEW f \in S, NEW paths, NEW i,
         <<"load", i>> \in I, paths[i].plugins \in Seq(P)
  PROVE  OnPath(f, i, paths) \in S
<1>1. PICK module : module = RegisterModule(f, paths[i].plugins)
  OBVIOUS
<1>2. module \in S
  <2>1. PICK list : list = paths[i].plugins /\ list \in Seq(P)
    OBVIOUS
  <2>2. PICK known : known = ToSet(f.registry)
    OBVIOUS
  <2>. QED
    BY <1>1, <2>1, <2>2, RegisterModuleGrows
<1>3. ASSUME NEW g \in S PROVE [g EXCEPT !.issues = @ \cup {<<"load", i>>}] \in S
  BY NotedType
<1>. QED
  BY <1>1, <1>2, <1>3 DEF OnPath

(* The paths of a configuration, and the issues they may leave.            *)
Walkable(paths, P, I) == \A i \in 1..Len(paths) : <<"load", i>> \in I /\ paths[i].plugins \in Seq(P)

(* The paths are gone through one after the other.                         *)
LEMMA RegisterPathsIs ==
  ASSUME NEW P, NEW I, NEW S, S = Finds(P, I), NEW registry \in Seq(P), NEW T, NEW paths \in Seq(T),
         Walkable(paths, P, I)
  PROVE  \E c \in [0..Len(paths) -> S] :
           /\ c[0] = [registry |-> registry, ok |-> TRUE, issues |-> {}] /\ c[Len(paths)] = RegisterPaths(registry, paths)
           /\ \A n \in 1..Len(paths) : c[n] = OnPath(c[n - 1], n, paths)
<1>0. PICK first : first = [registry |-> registry, ok |-> TRUE, issues |-> {}] /\ first \in S
  <2>1. [registry |-> registry, ok |-> TRUE, issues |-> {}] \in S
    BY DEF Finds
  <2>. QED
    BY <2>1
<1>1. PICK k \in Nat, base \in S, places \in [1..Len(paths) -> Nat] :
        /\ k = Len(paths) /\ DOMAIN paths = 1..k /\ base = [registry |-> registry, ok |-> TRUE, issues |-> {}]
        /\ places = [i \in 1..k |-> i]
  <2>1. Len(paths) \in Nat /\ DOMAIN paths = 1..Len(paths)
    OBVIOUS
  <2>2. [i \in 1..Len(paths) |-> i] \in [1..Len(paths) -> Nat]
    OBVIOUS
  <2>. QED
    BY <1>0, <2>1, <2>2
<1>2. PICK step : step = [p \in (1..k) \X S |-> OnPath(p[2], places[p[1]], paths)]
  OBVIOUS
<1>3. step \in [(1..k) \X S -> S]
  <2>1. ASSUME NEW n \in 1..k, NEW old \in S PROVE OnPath(old, places[n], paths) \in S
    BY <1>1, OnPathType DEF Walkable
  <2>. QED
    BY <1>2, <2>1
<1>4. PICK f \in [SUBSET (1..k) -> S] : Folds(f, base, step, k)
  BY <1>1, <1>3, FoldExists
<1>5. \A s \in SUBSET (1..k) : s # {} => Max(s) \in 1..k /\ s \ {Max(s)} \in SUBSET (1..k)
  BY GreatestNumber
<1>. DEFINE Is(it) == it = [s \in SUBSET (1..k) |->
                           IF s = {} THEN base ELSE OnPath(it[s \ {Max(s)}], places[Max(s)], paths)]
<1>6. RegisterPaths(registry, paths) = (CHOOSE it : Is(it))[1..k]
  BY <1>1 DEF RegisterPaths, FoldLeftDomain, FoldLeft, MapThenFoldSet, OnPath
<1>7. Is(f)
  <2>1. f = [s \in SUBSET (1..k) |-> f[s]]
    OBVIOUS
  <2>2. ASSUME NEW s \in SUBSET (1..k)
        PROVE  f[s] = IF s = {} THEN base ELSE OnPath(f[s \ {Max(s)}], places[Max(s)], paths)
    <3>1. CASE s = {}
      BY <1>4, <3>1 DEF Folds
    <3>2. CASE s # {}
      <4>1. f[s] = step[<<Max(s), f[s \ {Max(s)}]>>]
        BY <1>4, <3>2 DEF Folds
      <4>2. Max(s) \in 1..k /\ f[s \ {Max(s)}] \in S
        BY <1>4, <1>5, <3>2
      <4>. QED
        BY <1>2, <3>2, <4>1, <4>2
    <3>. QED
      BY <3>1, <3>2
  <2>. QED
    BY <2>1, <2>2
<1>8. PICK it : it = (CHOOSE any : Is(any))
  OBVIOUS
<1>9. Is(it)
  <2>. HIDE DEF Is
  <2>. QED
    BY <1>7, <1>8, Zenon
<1>10. \A s \in SUBSET (1..k) : it[s] = IF s = {} THEN base ELSE OnPath(it[s \ {Max(s)}], places[Max(s)], paths)
  BY <1>9, Zenon
<1>11. Unfolds(it, base, step, k, S)
  <2>1. it[{}] = base
    <3>1. {} \in SUBSET (1..k)
      OBVIOUS
    <3>. QED
      BY <1>10, <3>1, Zenon
  <2>2. ASSUME NEW s \in SUBSET (1..k), s # {}, it[s \ {Max(s)}] \in S
        PROVE  it[s] = step[<<Max(s), it[s \ {Max(s)}]>>]
    <3>1. PICK m \in 1..k : m = Max(s)
      BY <1>5, <2>2
    <3>2. PICK old \in S : old = it[s \ {Max(s)}]
      BY <2>2
    <3>3. it[s] = OnPath(old, places[m], paths)
      BY <1>10, <2>2, <3>1, <3>2, Zenon
    <3>4. step[<<m, old>>] = OnPath(old, places[m], paths)
      BY <1>2
    <3>. QED
      BY <3>1, <3>2, <3>3, <3>4
  <2>. QED
    BY <2>1, <2>2 DEF Unfolds
<1>12. PICK c \in [0..k -> S] : c[k] = it[1..k] /\ Chain(c, base, step, k)
  BY <1>1, <1>3, <1>11, FoldChain, ZenonT(30)
<1>13. ASSUME NEW n \in 1..k PROVE c[n] = OnPath(c[n - 1], places[n], paths)
  <2>1. PICK old \in S : old = c[n - 1]
    OBVIOUS
  <2>2. step[<<n, old>>] = OnPath(old, places[n], paths)
    BY <1>2
  <2>. QED
    BY <1>12, <2>1, <2>2 DEF Chain
<1>14. c[k] = RegisterPaths(registry, paths) /\ c[0] = base
  BY <1>6, <1>8, <1>12 DEF Chain
<1>. QED
  BY <1>1, <1>12, <1>13, <1>14

(* Plugins that can be discovered.                                         *)
Offering(config) ==
  /\ IsOffer(config.builtin) /\ IsOffer(config.entry_points) /\ IsList(config.paths)
  /\ \A path \in ToSet(config.paths) : IsOffer(path.plugins)

Everything(config) ==
  ToSet(config.builtin) \cup ToSet(config.entry_points) \cup UNION {ToSet(path.plugins) : path \in ToSet(config.paths)}

(* Every list of plugins is one of what there is.                          *)
LEMMA OfferingLists ==
  ASSUME NEW config, Offering(config), NEW P, P = Everything(config)
  PROVE  /\ config.builtin \in Seq(P) /\ config.entry_points \in Seq(P) /\ \A p \in P : p.name \in Int
         /\ config.paths \in Seq(ToSet(config.paths))
         /\ \A i \in 1..Len(config.paths) : config.paths[i].plugins \in Seq(P)
<1>1. ASSUME NEW offered, IsOffer(offered), ToSet(offered) \subseteq P PROVE offered \in Seq(P)
  <2>1. offered \in Seq(ToSet(offered))
    BY <1>1 DEF IsOffer, IsList
  <2>. QED
    BY <1>1, <2>1
<1>2. ToSet(config.builtin) \subseteq P /\ ToSet(config.entry_points) \subseteq P
  BY DEF Everything
<1>3. config.paths \in Seq(ToSet(config.paths))
  BY DEF Offering, IsList
<1>4. ASSUME NEW i \in 1..Len(config.paths) PROVE config.paths[i].plugins \in Seq(P)
  <2>1. config.paths[i] \in ToSet(config.paths)
    BY <1>3 DEF ToSet
  <2>2. ToSet(config.paths[i].plugins) \subseteq P
    BY <2>1 DEF Everything
  <2>. QED
    BY <1>1, <2>1, <2>2 DEF Offering
<1>5. \A p \in P : p.name \in Int
  BY DEF Everything, Offering, IsOffer
<1>. QED
  BY <1>1, <1>2, <1>3, <1>4, <1>5 DEF Offering

(* What is on offer before a path.                                         *)
LEMMA OffersBeforeIs ==
  ASSUME NEW config, NEW i \in Int, NEW p
  PROVE  p \in OffersBefore(config, i) <=>
           \/ p \in ToSet(config.builtin)
           \/ \E j \in 1..(i - 1) : config.paths[j].exists /\ p \in ToSet(config.paths[j].plugins)
BY DEF OffersBefore, Existing

(* What a path changes of the registry.                                    *)
LEMMA OnPathRegistry ==
  ASSUME NEW P, NEW I, NEW S, S = Finds(P, I), NEW f \in S, NEW paths, NEW i,
         <<"load", i>> \in I, paths[i].plugins \in Seq(P), NEW module, module = RegisterModule(f, paths[i].plugins)
  PROVE  /\ paths[i].exists => OnPath(f, i, paths).registry = module.registry
         /\ ~paths[i].exists => OnPath(f, i, paths).registry = f.registry
<1>1. module \in S
  <2>1. PICK list : list = paths[i].plugins /\ list \in Seq(P)
    OBVIOUS
  <2>2. PICK known : known = ToSet(f.registry)
    OBVIOUS
  <2>. QED
    BY <2>1, <2>2, RegisterModuleGrows
<1>2. \A g \in Finds(P, I) : \A issue : [g EXCEPT !.issues = @ \cup {issue}].registry = g.registry
  BY DEF Finds
<1>. QED
  BY <1>1, <1>2 DEF OnPath

(* plugins/loader.py: what is registered from the paths is usable and on   *)
(* offer, and a sound module loses nothing.                                *)
LEMMA PathsTaken ==
  ASSUME NEW config, Offering(config), NEW P, P = Everything(config),
         NEW found, found = RegisterPaths(RegisterEach(<<>>, config.builtin), config.paths)
  PROVE  /\ found.registry \in Seq(P)
         /\ \A p \in ToSet(found.registry) : p.usable /\ p \in OffersBefore(config, Len(config.paths) + 1)
         /\ \A i \in 1..Len(config.paths) :
              IsSound(config, i) => ToSet(config.paths[i].plugins) \subseteq ToSet(found.registry)
<1>1. PICK k \in Nat : k = Len(config.paths) /\ DOMAIN config.paths = 1..k
  BY OfferingLists
<1>2. PICK I : I = {<<"load", i>> : i \in 1..k}
  OBVIOUS
<1>3. PICK S : S = Finds(P, I)
  OBVIOUS
<1>4. PICK paths, T : paths = config.paths /\ paths \in Seq(T)
  BY OfferingLists
<1>5. \A i \in 1..k : <<"load", i>> \in I /\ paths[i].plugins \in Seq(P)
  BY <1>1, <1>2, <1>4, OfferingLists
<1>6. PICK registry : registry = RegisterEach(<<>>, config.builtin) /\ registry \in Seq(P)
                      /\ Grows(<<>>, registry, config.builtin)
  <2>1. <<>> \in Seq(P) /\ config.builtin \in Seq(P)
    BY OfferingLists
  <2>. QED
    BY <2>1, RegisterEachGrows
<1>7. PICK c \in [0..k -> S] :
        /\ c[0] = [registry |-> registry, ok |-> TRUE, issues |-> {}] /\ c[k] = found
        /\ \A n \in 1..k : c[n] = OnPath(c[n - 1], n, paths)
  <2>1. k = Len(paths)
    BY <1>1, <1>4
  <2>2. \E c \in [0..Len(paths) -> S] :
           /\ c[0] = [registry |-> registry, ok |-> TRUE, issues |-> {}] /\ c[Len(paths)] = RegisterPaths(registry, paths)
           /\ \A n \in 1..Len(paths) : c[n] = OnPath(c[n - 1], n, paths)
    <3>1. Walkable(paths, P, I)
      BY <1>5, <2>1 DEF Walkable
    <3>. QED
      BY <1>3, <1>4, <1>6, <3>1, RegisterPathsIs
  <2>. QED
    BY <1>4, <1>6, <2>1, <2>2
<1>. DEFINE HoldsAt(n) ==
       /\ \A p \in ToSet(c[n].registry) : p.usable /\ p \in OffersBefore(config, n + 1)
       /\ \A i \in 1..n : IsSound(config, i) => ToSet(paths[i].plugins) \subseteq ToSet(c[n].registry)
<1>8. PICK Good : Good = {n \in 0..k : HoldsAt(n)}
  OBVIOUS
<1>9. 0 \in Good
  <2>1. c[0].registry = registry /\ 0 \in 0..k /\ 1..0 = {}
    BY <1>7
  <2>2. \A p \in ToSet(registry) : p.usable /\ p \in ToSet(config.builtin)
    BY <1>6 DEF Grows, ToSet
  <2>. QED
    BY <1>8, <2>1, <2>2, OffersBeforeIs
<1>10. ASSUME NEW n \in 0..(k - 1), n \in Good PROVE n + 1 \in Good
  <2>1. PICK i \in 1..k : i = n + 1 /\ i - 1 = n /\ n \in 0..k /\ i \in 0..k
    OBVIOUS
  <2>2. PICK old : old = c[n] /\ old \in S /\ old.registry \in Seq(P)
    BY <1>3, <2>1 DEF Finds
  <2>3. PICK list : list = paths[i].plugins /\ list \in Seq(P)
    BY <1>5
  <2>4. PICK module, known : module = RegisterModule(old, list) /\ known = OffersBefore(config, i)
    OBVIOUS
  <2>5. HoldsAt(n)
    BY <1>8, <1>10
  <2>6. ToSet(old.registry) \subseteq known
    BY <2>1, <2>2, <2>4, <2>5
  <2>7. /\ Grows(old.registry, module.registry, list)
        /\ ~Raises(known, list) => ToSet(list) \subseteq ToSet(module.registry)
    <3>1. /\ S = Finds(P, I) /\ old \in S /\ list \in Seq(P) /\ ToSet(old.registry) \subseteq known
          /\ module = RegisterModule(old, list)
      BY <1>3, <2>2, <2>3, <2>4, <2>6
    <3>. HIDE DEF HoldsAt
    <3>2. /\ module \in S /\ Grows(old.registry, module.registry, list)
          /\ ~Raises(known, list) => module.ok /\ ToSet(list) \subseteq ToSet(module.registry)
      BY ONLY <3>1, RegisterModuleGrows
    <3>. QED
      BY <3>2
  <2>8. PICK new : new = c[i]
    OBVIOUS
  <2>9. /\ paths[i].exists => new.registry = module.registry
        /\ ~paths[i].exists => new.registry = old.registry
    <3>1. new = OnPath(old, i, paths)
      BY <1>7, <2>1, <2>2, <2>8
    <3>2. <<"load", i>> \in I /\ list = paths[i].plugins
      BY <1>5, <2>3
    <3>. HIDE DEF HoldsAt
    <3>. QED
      BY <1>3, <2>2, <2>3, <2>4, <3>1, <3>2, OnPathRegistry
  <2>10. ASSUME NEW p \in ToSet(new.registry) PROVE p.usable /\ p \in OffersBefore(config, i + 1)
    <3>1. ASSUME p \in ToSet(old.registry) PROVE p.usable /\ p \in OffersBefore(config, i + 1)
      <4>1. p.usable /\ p \in OffersBefore(config, i)
        BY <2>1, <2>2, <2>5, <3>1
      <4>. QED
        BY <4>1, OffersBeforeIs
    <3>2. ASSUME paths[i].exists, p \in ToSet(list), p.usable PROVE p \in OffersBefore(config, i + 1)
      <4>1. i \in 1..((i + 1) - 1)
        OBVIOUS
      <4>. QED
        BY <1>4, <2>3, <3>2, <4>1, OffersBeforeIs
    <3>. QED
      BY <2>7, <2>9, <2>10, <3>1, <3>2 DEF Grows
  <2>11. ToSet(old.registry) \subseteq ToSet(new.registry)
    BY <2>7, <2>9 DEF Grows
  <2>12. ASSUME NEW j \in 1..i, IsSound(config, j) PROVE ToSet(paths[j].plugins) \subseteq ToSet(new.registry)
    <3>1. CASE j = i
      <4>1. paths[i].exists /\ ~Raises(known, list)
        BY <1>4, <2>3, <2>4, <2>12, <3>1 DEF IsSound, Raises
      <4>. QED
        BY <2>3, <2>7, <2>9, <3>1, <4>1
    <3>2. CASE j # i
      <4>1. j \in 1..n
        BY <2>1, <3>2
      <4>. QED
        BY <2>2, <2>5, <2>11, <2>12, <4>1
    <3>. QED
      BY <3>1, <3>2
  <2>13. HoldsAt(i)
    BY <2>8, <2>10, <2>12
  <2>. QED
    BY <1>8, <2>1, <2>13
<1>11. k \in Good
  <2>. HIDE DEF HoldsAt
  <2>1. 0..k \subseteq Good
    BY <1>9, <1>10, ChainInduction
  <2>. QED
    BY <2>1
<1>12. HoldsAt(k)
  BY <1>8, <1>11
<1>13. found.registry \in Seq(P)
  <2>1. c[k] \in S
    BY <1>7
  <2>. QED
    BY <1>3, <1>7, <2>1 DEF Finds
<1>. QED
  BY <1>1, <1>4, <1>7, <1>12, <1>13

(* A step that neither validates the changeset nor discovers plugins       *)
(* leaves them alone, and begins past the discovery or goes nowhere.       *)
LEMMA PluginsKept ==
  ASSUME [Next]_vars, ~ValidateChangeset, ~InitializePlugins
  PROVE  UNCHANGED <<settings, plugins>> /\ (stage' = stage \/ stage \notin Outset \cup {"failed"})
<1>1. CASE UNCHANGED vars
  BY <1>1 DEF vars, intakeVars
<1>2. CASE IntakeNext
  <2>. USE DEF Outset, request, intakeVars, KeepFiles, KeepRun, Snapshotting, Creating, Loading
  <2>1. CASE SnapshotNext /\ UNCHANGED <<plugins, risks, shadowVars, taken>>
    BY <2>1 DEF SnapshotNext, CaptureSnapshot, LoadSnapshot, WriteFile, DetectCompatibility, EndSnapshot
  <2>2. CASE RunPreflight
    BY <2>2 DEF RunPreflight
  <2>3. CASE PatchTarget \/ UploadConfigset \/ CreateCollection \/ PrepareChange \/ CallSchemaApi \/ FinishShadow
    BY <2>3 DEF PatchTarget, UploadConfigset, CreateCollection, PrepareChange, CallSchemaApi, FinishShadow
  <2>4. CASE LoadFromFile \/ LoadFromPlugin \/ ExtractFromLog \/ EndSampling
    BY <2>4 DEF LoadFromFile, LoadFromPlugin, ExtractFromLog, EndSampling
  <2>5. CASE TakeRow
    BY <2>5 DEF TakeRow
  <2>. QED
    BY <1>2, <2>1, <2>2, <2>3, <2>4, <2>5 DEF IntakeNext
<1>3. CASE ComparisonNext /\ UNCHANGED <<intakeVars, vectorVars>>
  BY <1>3 DEF ComparisonNext, Replay, Compare, SelectRewrites, FetchRewrite, EndRewrites, SelectExplains,
              FetchExplain, EvaluateGate, request, intakeVars, Outset
<1>4. CASE VectorNext /\ UNCHANGED <<intakeVars, comparisonVars>>
  BY <1>4, VectorCourse DEF request, intakeVars, Outset
<1>. QED
  BY <1>1, <1>2, <1>3, <1>4 DEF Next, Over

(* The inductive invariant about the plugins: past their discovery they    *)
(* are what was discovered, and a strict run with an issue has failed.     *)
PluginInv ==
  stage \notin Outset /\ ValidChangeset(settings) =>
    /\ plugins = LoadedPlugins(settings.plugins)
    /\ settings.plugins.strict_mode => plugins.issues = {} \/ stage = "failed"

(* It holds at the start, and every step keeps it.                         *)
LEMMA InitPlugins ==
  ASSUME Init
  PROVE  PluginInv
BY DEF Init, PluginInv, Outset

(* The discovery makes it so, and every other step keeps it.               *)
LEMMA PluginStep ==
  ASSUME PluginInv, [Next]_vars
  PROVE  PluginInv'
<1>1. UNCHANGED settings
  BY NextKeepsGiven
<1>2. ValidChangeset(settings)' = ValidChangeset(settings) /\ LoadedPlugins(settings.plugins)' = LoadedPlugins(settings.plugins)
  BY <1>1
<1>3. CASE ValidateChangeset
  BY <1>2, <1>3 DEF ValidateChangeset, PluginInv, Outset, Enter
<1>4. CASE InitializePlugins
  <2>1. plugins' = LoadedPlugins(settings.plugins)
    BY <1>4 DEF InitializePlugins
  <2>2. settings.plugins.strict_mode => plugins'.issues = {} \/ stage' = "failed"
    BY <1>4 DEF InitializePlugins, Enter
  <2>. QED
    BY <1>1, <1>2, <2>1, <2>2 DEF PluginInv
<1>5. CASE ~ValidateChangeset /\ ~InitializePlugins
  BY <1>1, <1>2, <1>5, PluginsKept DEF PluginInv, Outset
<1>. QED
  BY <1>3, <1>4, <1>5

(* Of the settings, what the discovery is given.                           *)
LEMMA PluginsOffered ==
  ASSUME Given
  PROVE  Offering(settings.plugins) /\ IsList(settings.plugins.enabled_plugins)
BY WellFormedSettings DEF WellFormed, Offering

(* What is discovered is what the statement says of the active plugins.    *)
LEMMA LoadedAreUsable ==
  ASSUME NEW config, Offering(config), IsList(config.enabled_plugins), config.enabled,
         NEW loaded, loaded = LoadedPlugins(config), NEW active, active = ToSet(loaded.active),
         NEW asked, asked = ToSet(config.enabled_plugins)
  PROVE  /\ \A name \in active : \E p \in Offers(config) : p.name = name /\ p.usable /\ p.compatible
         /\ \A name \in asked \ active : <<"selection", name>> \in loaded.issues
         /\ \A i \in DOMAIN config.paths : IsSound(config, i) =>
              \A p \in ToSet(config.paths[i].plugins) :
                p.compatible /\ (asked = {} \/ p.name \in asked) => p.name \in active
<1>1. PICK P : P = Everything(config)
  OBVIOUS
<1>2. PICK onPaths : onPaths = RegisterPaths(RegisterEach(<<>>, config.builtin), config.paths)
  OBVIOUS
<1>3. /\ onPaths.registry \in Seq(P)
      /\ \A p \in ToSet(onPaths.registry) : p.usable /\ p \in OffersBefore(config, Len(config.paths) + 1)
      /\ \A i \in 1..Len(config.paths) :
           IsSound(config, i) => ToSet(config.paths[i].plugins) \subseteq ToSet(onPaths.registry)
  BY <1>1, <1>2, PathsTaken
<1>4. PICK registry : registry = RegisterEach(onPaths.registry, config.entry_points) /\ registry \in Seq(P)
                      /\ Grows(onPaths.registry, registry, config.entry_points)
  BY <1>1, <1>3, RegisterEachGrows, OfferingLists
<1>5. Discovered(config).registry = registry
  BY <1>2, <1>4 DEF Discovered
<1>6. PICK known : known = ToSet(registry) /\ IsFiniteSet(known) /\ \A p \in known : p.name \in Int
  <2>1. IsFiniteSet(ToSet(registry)) /\ ToSet(registry) \subseteq P
    BY <1>4, RangeFinite
  <2>. QED
    BY <1>1, <2>1, OfferingLists
<1>7. PICK compatible : compatible = {p.name : p \in {q \in known : q.compatible}}
  OBVIOUS
<1>8. loaded.active = (IF asked = {} THEN Ascending(compatible) ELSE Within(config.enabled_plugins, compatible))
      /\ \A name \in asked \ compatible : <<"selection", name>> \in loaded.issues
  BY <1>5, <1>6, <1>7 DEF LoadedPlugins
<1>9. active = IF asked = {} THEN compatible ELSE asked \cap compatible
  <2>1. CASE asked = {}
    <3>1. compatible \subseteq Int /\ IsFiniteSet(compatible)
      <4>1. PICK some : some = {q \in known : q.compatible} /\ some \subseteq known /\ IsFiniteSet(some)
        BY <1>6, FS_Subset
      <4>2. PICK nameOf : nameOf = [q \in some |-> q.name]
        OBVIOUS
      <4>3. compatible = {nameOf[q] : q \in some} /\ \A name \in compatible : name \in Int
        BY <1>6, <1>7, <4>1, <4>2
      <4>4. nameOf \in Surjection(some, compatible)
        BY <4>2, <4>3 DEF Surjection
      <4>. QED
        BY <4>1, <4>3, <4>4, FS_Surjection
    <3>2. PICK before : before = {p \in compatible \X compatible : p[1] < p[2]}
      OBVIOUS
    <3>3. Sorts(before, compatible) /\ Ascending(compatible) = SortedList(compatible, before)
      BY <3>1, <3>2, NumbersSort
    <3>4. ToSet(Ascending(compatible)) = compatible
      BY <3>1, <3>3, SortedListOrders
    <3>. QED
      BY <1>8, <2>1, <3>4
  <2>2. CASE asked # {}
    <3>1. PICK list : list = config.enabled_plugins /\ list \in Seq(asked) /\ ToSet(list) = asked
      BY DEF IsList
    <3>2. ToSet(Within(list, compatible)) = ToSet(list) \cap compatible
      BY <3>1, WithinType
    <3>. QED
      BY <1>8, <2>2, <3>1, <3>2
  <2>. QED
    BY <2>1, <2>2
<1>10. ASSUME NEW name \in active PROVE \E p \in Offers(config) : p.name = name /\ p.usable /\ p.compatible
  <2>1. PICK p \in known : p.name = name /\ p.compatible
    BY <1>7, <1>9
  <2>2. p.usable /\ p \in Offers(config)
    BY <1>3, <1>4, <1>6 DEF Grows, Offers
  <2>. QED
    BY <2>1, <2>2
<1>11. ASSUME NEW i \in DOMAIN config.paths, IsSound(config, i), NEW p \in ToSet(config.paths[i].plugins),
              p.compatible, asked = {} \/ p.name \in asked
       PROVE  p.name \in active
  <2>1. i \in 1..Len(config.paths)
    BY OfferingLists
  <2>2. p \in known
    BY <1>3, <1>4, <1>6, <1>11, <2>1 DEF Grows
  <2>. QED
    BY <1>7, <1>9, <1>11, <2>2
<1>. QED
  BY <1>8, <1>9, <1>10, <1>11

(* plugins/: every active plugin is on offer, usable and compatible, what  *)
(* was asked for and is not active is an issue, a module of which nothing  *)
(* raises loses no plugin to what happens elsewhere, and a strict run goes *)
(* on only without issues; for any plugins on offer.                       *)
THEOREM PluginsAreUsable == Spec => []ActivePluginsUsable
<1>1. Init => Given /\ PluginInv
  BY InitSnapshot, InitPlugins
<1>2. Given /\ PluginInv /\ [Next]_vars => (Given /\ PluginInv)'
  BY NextKeepsGiven, PluginStep
<1>3. Given /\ PluginInv => ActivePluginsUsable
  <2>1. SUFFICES ASSUME Given, PluginInv,
                        stage \notin {"validate", "plugins_init"} /\ ValidChangeset(settings) /\ settings.plugins.enabled
        PROVE  LET config == settings.plugins
                   active == ToSet(plugins.active)
                   asked == ToSet(config.enabled_plugins)
               IN  /\ \A name \in active : \E p \in Offers(config) : p.name = name /\ p.usable /\ p.compatible
                   /\ \A name \in asked \ active : <<"selection", name>> \in plugins.issues
                   /\ \A i \in DOMAIN config.paths : IsSound(config, i) =>
                        \A p \in ToSet(config.paths[i].plugins) :
                          p.compatible /\ (asked = {} \/ p.name \in asked) => p.name \in active
                   /\ config.strict_mode => plugins.issues = {} \/ stage = "failed"
    BY DEF ActivePluginsUsable
  <2>2. PICK config, active, asked : config = settings.plugins /\ active = ToSet(plugins.active)
                                     /\ asked = ToSet(config.enabled_plugins)
    OBVIOUS
  <2>3. plugins = LoadedPlugins(config) /\ (config.strict_mode => plugins.issues = {} \/ stage = "failed")
    BY <2>1, <2>2 DEF PluginInv, Outset
  <2>4. Offering(config) /\ IsList(config.enabled_plugins) /\ config.enabled
    BY <2>1, <2>2, PluginsOffered
  <2>5. /\ \A name \in active : \E p \in Offers(config) : p.name = name /\ p.usable /\ p.compatible
        /\ \A name \in asked \ active : <<"selection", name>> \in plugins.issues
        /\ \A i \in DOMAIN config.paths : IsSound(config, i) =>
             \A p \in ToSet(config.paths[i].plugins) :
               p.compatible /\ (asked = {} \/ p.name \in asked) => p.name \in active
    BY <2>2, <2>3, <2>4, LoadedAreUsable
  <2>. QED
    BY <2>2, <2>3, <2>5
<1>. QED
  BY <1>1, <1>2, <1>3, PTL DEF Spec

-----------------------------------------------------------------------------
(* changesets/validator.py leaves no target file that configset_patcher.py *)
(* raises on, but those that it takes and should not.                      *)
LEMMA ValidTargetsApply ==
  ASSUME ValidChangeset(settings), NEW change \in ToSet(settings.changes), change.op \in ConfigsetOps,
         NEW i \in DOMAIN change.files, ~PassedOver(TargetsOf(change)[i])
  PROVE  ~PatchRaises(settings.sources, TargetsOf(change)[i])
<1>1. ValidTargets(change) /\ SourceFiles(change) \subseteq DOMAIN settings.sources
  BY DEF ValidChangeset, ValidChange, PathsExist
<1>2. PICK file, step : file = change.files[i] /\ step = TargetsOf(change)[i]
  OBVIOUS
<1>3. /\ change.mode \in UpdateModes /\ change.files # <<>>
      /\ file.path \notin {NoKey, Null, Blank} /\ file.mode \in UpdateModes \cup {NoKey, Null}
      /\ file.source_file \notin {NoKey, Null} \/ change.source_file \notin {NoKey, Null}
  BY <1>1, <1>2 DEF ValidTargets
<1>4. UpdateModes \cap {NoKey, Null, Blank} = {}
  BY DEF UpdateModes, NoKey, Null, Blank
<1>5. step = [path    |-> file.path,
              mode    |-> IF file.mode # NoKey THEN file.mode ELSE change.mode,
              general |-> change.mode,
              source  |-> IF file.source_file # NoKey THEN file.source_file ELSE change.source_file]
  BY <1>2, <1>3, <1>4 DEF TargetsOf
<1>6. /\ step.path = file.path /\ step.general = change.mode
      /\ step.mode = (IF file.mode # NoKey THEN file.mode ELSE change.mode)
      /\ step.source = (IF file.source_file # NoKey THEN file.source_file ELSE change.source_file)
  BY <1>5
<1>7. step.mode # Null /\ step.source \notin {Null, Blank}
  BY <1>2 DEF PassedOver
<1>8. {step.general, step.mode} \subseteq UpdateModes
  BY <1>3, <1>6, <1>7
<1>9. step.source \in DOMAIN settings.sources \ {NoKey, Null, Blank}
  <2>1. {file.source_file, change.source_file} \ {NoKey, Null, Blank} \subseteq SourceFiles(change)
    BY <1>2 DEF SourceFiles
  <2>2. step.source \in {file.source_file, change.source_file} \ {NoKey, Null, Blank}
    BY <1>3, <1>6, <1>7
  <2>. QED
    BY <1>1, <2>1, <2>2
<1>. QED
  BY <1>2, <1>3, <1>6, <1>8, <1>9 DEF PatchRaises

(* The target files of a list of changes are a list.                       *)
LEMMA StepsAreList ==
  ASSUME Given
  PROVE  /\ Len(Steps) \in Nat /\ IsList(Steps)
         /\ ValidChangeset(settings) =>
              \A n \in 1..Len(Steps) : PatchRaises(settings.sources, Steps[n]) => PassedOver(Steps[n])
<1>1. PICK seq, S, kind : /\ seq = settings.changes /\ S = ToSet(seq)
                          /\ kind = {change \in ToSet(seq) : change.op \in ConfigsetOps}
  OBVIOUS
<1>2. seq \in Seq(S)
  BY <1>1, WellFormedSettings DEF WellFormed, IsList
<1>3. PICK w : w = Within(seq, kind)
  OBVIOUS
<1>4. w \in Seq(S) /\ \A m \in 1..Len(w) : w[m] \in S /\ w[m].op \in ConfigsetOps
  <2>1. w \in Seq(S \cap kind)
    BY <1>2, <1>3, WithinType
  <2>. QED
    BY <1>1, <2>1
<1>5. PICK seqs : seqs = [m \in DOMAIN w |-> TargetsOf(w[m])]
  OBVIOUS
<1>6. \A m \in 1..Len(w) : \E k \in Nat : TargetsOf(w[m]) = [i \in 1..k |-> TargetsOf(w[m])[i]]
  <2> SUFFICES ASSUME NEW m \in 1..Len(w)
               PROVE  \E k \in Nat : TargetsOf(w[m]) = [i \in 1..k |-> TargetsOf(w[m])[i]]
    OBVIOUS
  <2>1. PICK change \in S : change = w[m] /\ change.op \in ConfigsetOps
    BY <1>4
  <2>2. IsList(change.files)
    BY <1>1, <2>1, WellFormedSettings DEF WellFormed
  <2>3. PICK files : files = IF change.files = <<>> THEN <<NoTarget>> ELSE change.files
    OBVIOUS
  <2>4. \E k \in Nat : DOMAIN files = 1..k
    <3>1. CASE change.files = <<>>
      <4>1. files = <<NoTarget>>
        BY <2>3, <3>1
      <4>2. DOMAIN files = 1..1
        BY <4>1
      <4>. QED
        BY <4>2
    <3>2. CASE change.files # <<>>
      <4>1. PICK R : files \in Seq(R)
        BY <2>2, <2>3, <3>2 DEF IsList
      <4>. QED
        BY <4>1
    <3>. QED
      BY <3>1, <3>2
  <2>5. TargetsOf(change) = [i \in DOMAIN files |-> TargetsOf(change)[i]]
    BY <2>3 DEF TargetsOf
  <2>. QED
    BY <2>1, <2>4, <2>5
<1>7. PICK T : T = UNION {{TargetsOf(w[m])[i] : i \in DOMAIN TargetsOf(w[m])} : m \in 1..Len(w)}
  OBVIOUS
<1>8. \A m \in 1..Len(w) : TargetsOf(w[m]) \in Seq(T)
  <2> SUFFICES ASSUME NEW m \in 1..Len(w) PROVE TargetsOf(w[m]) \in Seq(T)
    OBVIOUS
  <2>0. PICK t : t = TargetsOf(w[m])
    OBVIOUS
  <2>1. PICK k \in Nat : t = [i \in 1..k |-> t[i]]
    BY <1>6, <2>0
  <2>2. \A i \in 1..k : t[i] \in T
    <3>1. DOMAIN t = 1..k
      BY <2>1
    <3>. QED
      BY <1>7, <2>0, <3>1
  <2>3. t \in [1..k -> T]
    BY <2>1, <2>2
  <2>. QED
    BY <2>0, <2>3
<1>9. seqs \in Seq(Seq(T)) /\ Len(seqs) = Len(w)
  BY <1>4, <1>5, <1>8
<1>10. PICK steps \in Seq(T) : /\ steps = FlattenSeq(seqs)
                               /\ \A x : x \in ToSet(steps) => \E m \in 1..Len(seqs) : x \in ToSet(seqs[m])
  BY <1>9, FlattenSeqRange
<1>11. Steps = steps
  BY <1>1, <1>3, <1>5, <1>10, Zenon DEF Steps, PatchSteps
<1>12. ASSUME ValidChangeset(settings), NEW n \in 1..Len(steps), PatchRaises(settings.sources, steps[n])
       PROVE  PassedOver(steps[n])
  <2>1. PICK m \in 1..Len(w) : steps[n] \in ToSet(seqs[m])
    <3>1. steps[n] \in ToSet(steps)
      BY ToSetIs
    <3>. QED
      BY <1>9, <1>10, <3>1
  <2>2. PICK change \in ToSet(settings.changes) : change = w[m] /\ change.op \in ConfigsetOps
    BY <1>1, <1>4
  <2>3. seqs[m] = TargetsOf(change)
    BY <1>4, <1>5, <2>2
  <2>4. change.files # <<>> 
    BY <1>12, <2>2 DEF ValidChangeset, ValidChange, ValidTargets
  <2>5. DOMAIN TargetsOf(change) = DOMAIN change.files
    BY <2>4 DEF TargetsOf
  <2>6. PICK i \in DOMAIN change.files : steps[n] = TargetsOf(change)[i]
    BY <2>1, <2>3, <2>5, Zenon DEF ToSet
  <2>. QED
    BY <1>12, <2>2, <2>6, ValidTargetsApply
<1>13. IsList(steps)
  <2>1. \A n \in 1..Len(steps) : steps[n] \in ToSet(steps)
    BY ToSetIs
  <2>2. PICK k \in Nat : k = Len(steps) /\ steps = [n \in 1..k |-> steps[n]]
    OBVIOUS
  <2>3. steps \in [1..k -> ToSet(steps)]
    BY <2>1, <2>2
  <2>. QED
    BY <2>3 DEF IsList
<1>. QED
  BY <1>11, <1>12, <1>13

(* A changeset that was accepted is what the later stages work with, and   *)
(* what create_shadow raises ends the run.                                 *)
AcceptedInv ==
  /\ stage \notin {"validate", "failed"} => ValidChangeset(settings)
  /\ stage # "failed" => raised = "none"
  /\ patched \in Nat /\ worked \in Nat
  /\ ValidatedChangesApply

(* A run that has failed stays as it is.                                   *)
LEMMA FailedStays ==
  ASSUME stage = "failed", [Next]_vars
  PROVE  UNCHANGED vars
<1>1. CASE IntakeNext
  BY <1>1, IntakeCourse DEF Intaking, Outset
<1>2. CASE VectorNext
  BY <1>2, VectorCourse
<1>3. CASE ComparisonNext
  BY <1>3 DEF ComparisonNext, Replay, Compare, SelectRewrites, FetchRewrite, EndRewrites, SelectExplains, FetchExplain,
              EvaluateGate
<1>. QED
  BY <1>1, <1>2, <1>3 DEF Next, Over

(* It holds at the start.                                                  *)
LEMMA InitAccepted ==
  ASSUME Init
  PROVE  AcceptedInv
<1>1. stage = "validate" /\ raised = "none" /\ patched = 0 /\ worked = 0
  BY DEF Init, IntakeInit
<1>. QED
  BY <1>1 DEF AcceptedInv, ValidatedChangesApply

(* The steps that neither patch the configset nor change the schema.       *)
LEMMA OthersKeepAccepted ==
  ASSUME AcceptedInv, stage # "failed", Next, ~PatchTarget, ~UploadConfigset, ~CreateCollection, ~PrepareChange,
         ~CallSchemaApi
  PROVE  AcceptedInv'
<1>1. UNCHANGED <<settings, raised, patched, worked>>
  <2>1. CASE IntakeNext
    BY <2>1 DEF IntakeNext, SnapshotNext, CaptureSnapshot, LoadSnapshot, WriteFile, DetectCompatibility, EndSnapshot,
       KeepFiles, ValidateChangeset, InitializePlugins, RunPreflight, FinishShadow, LoadFromFile, LoadFromPlugin,
       ExtractFromLog, TakeRow, EndSampling, request, intakeVars, shadowVars, KeepRun
  <2>2. CASE ~IntakeNext
    <3>1. UNCHANGED <<raised, patched, worked>>
      BY <2>2 DEF Next, Over, vars, intakeVars
    <3>. QED
      BY <3>1, NextKeepsGiven
  <2>. QED
    BY <2>1, <2>2
<1>2. stage' \notin {"validate", "failed"} => ValidChangeset(settings)
  <2>1. CASE stage = "validate"
    <3>1. CASE IntakeNext
      BY <2>1, <3>1 DEF IntakeNext, SnapshotNext, CaptureSnapshot, LoadSnapshot, WriteFile, DetectCompatibility,
         EndSnapshot, Snapshotting, ValidateChangeset, InitializePlugins, RunPreflight, FinishShadow, LoadFromFile,
         LoadFromPlugin, ExtractFromLog, TakeRow, EndSampling, Creating, Loading, Enter
    <3>2. CASE ComparisonNext
      BY <2>1, <3>2 DEF ComparisonNext, Replay, Compare, SelectRewrites, FetchRewrite, EndRewrites, SelectExplains,
         FetchExplain, EvaluateGate
    <3>. QED
      BY <2>1, <3>1, <3>2, VectorCourse DEF Next, Over
  <2>. QED
    BY <2>1 DEF AcceptedInv
<1>3. raised' = "none" /\ patched' \in Nat /\ worked' \in Nat
  BY <1>1 DEF AcceptedInv
<1>4. ValidChangeset(settings') <=> ValidChangeset(settings)
  BY <1>1
<1>. QED
  BY <1>2, <1>3, <1>4 DEF AcceptedInv, ValidatedChangesApply

(* create_shadow.                                                          *)
LEMMA CreatingKeepsAccepted ==
  ASSUME Given, AcceptedInv, PatchTarget \/ UploadConfigset \/ CreateCollection \/ PrepareChange \/ CallSchemaApi
  PROVE  AcceptedInv'
<1>1. /\ stage = "shadow_create" /\ stage' \in {stage, "failed"} /\ UNCHANGED <<settings, baseline>>
      /\ raised' = raised \/ stage' = "failed"
  BY DEF PatchTarget, UploadConfigset, CreateCollection, PrepareChange, CallSchemaApi, Creating, KeepRun, request,
         PatchFails, Raise, Enter
<1>2. /\ ValidChangeset(settings) /\ raised = "none" /\ patched \in Nat /\ worked \in Nat
      /\ (ValidChangeset(settings') <=> ValidChangeset(settings))
  BY <1>1 DEF AcceptedInv
<1>3. patched' \in Nat /\ worked' \in Nat
  <2>1. patched' \in {patched, patched + 1, Len(Steps) + 1} /\ worked' \in {worked, worked + 1}
    BY DEF PatchTarget, UploadConfigset, CreateCollection, PrepareChange, CallSchemaApi, PatchFails, Raise, Report
  <2>. QED
    BY <1>2, <2>1, StepsAreList
<1>4. ValidatedChangesApply'
  <2>1. CASE PatchTarget
    <3>1. patched + 1 \in 1..Len(Steps) /\ Steps' = Steps
      BY <1>1, <1>2, <2>1, StepsAreList DEF PatchTarget, Steps
    <3>2. PatchRaises(settings.sources, Steps[patched + 1]) => PassedOver(Steps[patched + 1])
      BY <1>2, <3>1, StepsAreList
    <3>3. \/ raised' = raised
          \/ patched' = patched /\ PassedOver(Steps[patched + 1])
          \/ raised' = "OSError"
      BY <2>1, <3>2 DEF PatchTarget, PatchFails, Raise, PassedOver
    <3>4. patched' = patched => patched' < Len(Steps') /\ Steps'[patched' + 1] = Steps[patched + 1]
      BY <2>1, <3>1 DEF PatchTarget
    <3>. QED
      BY <1>2, <3>3, <3>4 DEF ValidatedChangesApply, PassedOver
  <2>2. CASE UploadConfigset \/ CreateCollection \/ CallSchemaApi
    <3>1. raised' \in {raised, "SolrRequestError"}
      BY <2>2 DEF UploadConfigset, CreateCollection, CallSchemaApi, PatchFails, Raise
    <3>. QED
      BY <1>2, <3>1 DEF ValidatedChangesApply
  <2>3. CASE PrepareChange
    <3>1. worked + 1 \in DOMAIN settings.changes
      <4>1. PICK S : settings.changes \in Seq(S)
        BY WellFormedSettings DEF WellFormed, IsList
      <4>2. worked < Len(settings.changes)
        BY <2>3 DEF PrepareChange
      <4>. QED
        BY <1>2, <4>1, <4>2
    <3>2. raised' = raised \/ (/\ Change.op \in SchemaOps /\ NamesUnknown(BaselineSchema, Change)
                               /\ worked' = worked)
      BY <2>3 DEF PrepareChange
    <3>3. BaselineSchema' = BaselineSchema
      BY <1>1 DEF BaselineSchema
    <3>4. PICK n : n = worked + 1 /\ worked = n - 1
      BY <1>2
    <3>. QED
      BY <1>1, <1>2, <3>1, <3>2, <3>3, <3>4 DEF ValidatedChangesApply, Change
  <2>. QED
    BY <2>1, <2>2, <2>3
<1>. QED
  BY <1>1, <1>2, <1>3, <1>4 DEF AcceptedInv

(* Every step of the run keeps it.                                         *)
LEMMA AcceptedStep ==
  ASSUME Given, AcceptedInv, [Next]_vars
  PROVE  AcceptedInv'
<1>1. CASE UNCHANGED vars
  <2>1. UNCHANGED <<settings, stage, baseline, raised, patched, worked>>
    BY <1>1 DEF vars, intakeVars
  <2>2. Steps' = Steps /\ BaselineSchema' = BaselineSchema
    BY <2>1 DEF Steps, BaselineSchema
  <2>. QED
    BY <2>1, <2>2 DEF AcceptedInv, ValidatedChangesApply
<1>. QED
  BY <1>1, FailedStays, OthersKeepAccepted, CreatingKeepsAccepted

(* changesets/validator.py against shadow/manager.py: create_shadow finds  *)
(* fault with a changeset that was accepted only at the first change that  *)
(* names a field or type the baseline does not have, or at a target file   *)
(* with a null mode, a null or empty source, or a path that leads out of   *)
(* the configset; for any changes, target files, modes and sources.        *)
THEOREM AcceptedChangesApply == Spec => []ValidatedChangesApply
<1>1. Init => Given /\ AcceptedInv
  BY InitSnapshot, InitAccepted
<1>2. Given /\ AcceptedInv /\ [Next]_vars => (Given /\ AcceptedInv)'
  BY NextKeepsGiven, AcceptedStep
<1>3. AcceptedInv => ValidatedChangesApply
  BY DEF AcceptedInv
<1>. QED
  BY <1>1, <1>2, <1>3, PTL DEF Spec

-----------------------------------------------------------------------------
(* Fields of which each has a name of its own.                             *)
Named(fields) ==
  IsList(fields) /\ \A m, n \in DOMAIN fields : fields[m].name = fields[n].name => m = n

(* The first field that a name finds is the one that has it.               *)
LEMMA FieldNamedIs ==
  ASSUME NEW schema, Named(schema.fields), NEW name
  PROVE  /\ \A i \in DOMAIN schema.fields : schema.fields[i].name = name =>
              FieldNamed(schema, name) # <<>> /\ FieldNamed(schema, name)[1] = schema.fields[i]
         /\ FieldNamed(schema, name) # <<>> => \E i \in DOMAIN schema.fields : schema.fields[i].name = name
         /\ \A j \in DOMAIN FieldNamed(schema, name) : \E i \in DOMAIN schema.fields :
              schema.fields[i].name = name /\ FieldNamed(schema, name)[j] = schema.fields[i]
<1>1. PICK fields, S, found, kind :
        /\ fields = schema.fields /\ S = ToSet(fields) /\ fields \in Seq(S)
        /\ kind = {f \in ToSet(schema.fields) : f.name = name} /\ found = Within(fields, kind)
  BY DEF Named, IsList
<1>2. found = FieldNamed(schema, name)
  BY <1>1 DEF FieldNamed
<1>3. found \in Seq(S \cap kind) /\ ToSet(found) = ToSet(fields) \cap kind
  BY <1>1, WithinType
<1>4. DOMAIN fields = 1..Len(fields) /\ DOMAIN found = 1..Len(found) /\ Len(found) \in Nat
  BY <1>1, <1>3
<1>5. ASSUME NEW j \in DOMAIN found
      PROVE  \E i \in DOMAIN fields : fields[i].name = name /\ found[j] = fields[i]
  <2>1. found[j] \in S \cap kind
    BY <1>3, <1>4
  <2>2. \E i \in DOMAIN fields : fields[i] = found[j]
    BY <1>1, <2>1 DEF ToSet
  <2>. QED
    BY <1>1, <2>1, <2>2
<1>6. found # <<>> => 1 \in DOMAIN found
  BY <1>3, <1>4
<1>7. ASSUME NEW i \in DOMAIN fields, fields[i].name = name PROVE found # <<>> /\ found[1] = fields[i]
  <2>1. fields[i] \in ToSet(found)
    BY <1>1, <1>3, <1>7 DEF ToSet
  <2>2. \E j \in 1..Len(found) : found[j] = fields[i]
    BY <1>3, <2>1, ToSetIs
  <2>3. found # <<>>
    BY <1>3, <2>2
  <2>4. PICK m \in DOMAIN fields : fields[m].name = name /\ found[1] = fields[m]
    BY <1>5, <1>6, <2>3
  <2>. QED
    BY <1>1, <1>7, <2>3, <2>4 DEF Named
<1>. QED
  BY <1>1, <1>2, <1>5, <1>6, <1>7

(* What the schema API can be asked for.                                   *)
Asked ==
  UNION {ToSet(Payloads(BaselineSchema, change)) :
           change \in {c \in ToSet(settings.changes) : c.op \in SchemaOps}}

(* How the schema of the shadow comes about: fields and types one by one   *)
(* are as Solr has them or as was asked for.                               *)
Became(live, now) ==
  /\ now = [fields |-> now.fields, types |-> now.types, dynamic |-> live.dynamic, copies |-> live.copies]
  /\ now.fields = [i \in DOMAIN live.fields |-> now.fields[i]]
  /\ now.types = [type \in DOMAIN live.types |-> now.types[type]]
  /\ \A i \in DOMAIN live.fields :
       \/ now.fields[i] = live.fields[i]
       \/ \E p \in Asked : p.kind = "field" /\ p.name = live.fields[i].name /\ p.body = now.fields[i]
  /\ \A type \in DOMAIN live.types :
       \/ now.types[type] = live.types[type]
       \/ \E p \in Asked : p.kind = "type" /\ p.name = type

(* By a change to one field, to the fields of a type, or to one type.      *)
ByUpdate(p, change) ==
  /\ change.op = "schema.field.update"
  /\ p.kind = "field" /\ p.name = change.field /\ p.body = UpdatedField(BaselineSchema, change)

ByReplace(p, change) ==
  /\ change.op = "schema.fieldType.replace" /\ p.kind = "field"
  /\ \E f \in ToSet(BaselineSchema.fields) :
       f.type = change.name /\ p.name = f.name /\ p.body = [f EXCEPT !.type = change.with]

ByRemoval(p, change) ==
  change.op = "schema.analyzer.remove_filter" /\ p.kind = "type" /\ p.name = change.fieldType

(* The members of a field that an update sets, or leaves.                  *)
LEMMA UpdatedIs ==
  ASSUME NEW schema, NEW change, NEW field, field = FieldNamed(schema, change.field)[1],
         NEW new, new = UpdatedField(schema, change)
  PROVE  /\ new.name = change.field /\ "name" \in DOMAIN new
         /\ "type" \in DOMAIN field =>
              "type" \in DOMAIN new /\ new.type = IF "type" \in DOMAIN change.set THEN change.set.type ELSE field.type
<1>1. PICK keys : keys = {"name"} \cup DOMAIN change.set \cup DOMAIN field
  OBVIOUS
<1>2. new = [key \in keys |-> IF key = "name" THEN change.field
                              ELSE IF key \in DOMAIN change.set THEN change.set[key] ELSE field[key]]
  BY <1>1 DEF UpdatedField
<1>. QED
  BY <1>1, <1>2

(* Each is one of the three.                                               *)
LEMMA AskedIs ==
  ASSUME IsSchema(BaselineSchema), NEW p \in Asked
  PROVE  \E change \in ToSet(settings.changes) : ByUpdate(p, change) \/ ByReplace(p, change) \/ ByRemoval(p, change)
<1>1. PICK change \in ToSet(settings.changes) :
        change.op \in SchemaOps /\ p \in ToSet(Payloads(BaselineSchema, change))
  BY DEF Asked
<1>2. CASE change.op = "schema.field.update"
  <2>1. PICK new : new = UpdatedField(BaselineSchema, change)
    OBVIOUS
  <2>2. Payloads(BaselineSchema, change) = <<FieldPayload(new)>>
    BY <1>2, <2>1 DEF Payloads
  <2>3. p = FieldPayload(new)
    BY <1>1, <2>2 DEF ToSet
  <2>4. new.name = change.field
    BY <2>1, UpdatedIs
  <2>5. ByUpdate(p, change)
    BY <1>2, <2>1, <2>3, <2>4 DEF ByUpdate, FieldPayload
  <2>. QED
    BY <2>5
<1>3. CASE change.op = "schema.fieldType.replace"
  <2>1. PICK found, S : found = FieldsOfType(BaselineSchema, change.name) /\ S = ToSet(BaselineSchema.fields)
    OBVIOUS
  <2>2. Payloads(BaselineSchema, change) = [i \in DOMAIN found |-> FieldPayload([found[i] EXCEPT !.type = change.with])]
    BY <1>3, <2>1 DEF Payloads, RetypedFields
  <2>3. PICK i \in DOMAIN found : p = FieldPayload([found[i] EXCEPT !.type = change.with])
    BY <1>1, <2>2 DEF ToSet
  <2>4. found[i] \in S /\ found[i].type = change.name
    <3>1. PICK fields, kind : /\ fields = BaselineSchema.fields /\ fields \in Seq(S)
                              /\ kind = {f \in ToSet(BaselineSchema.fields) : f.type = change.name}
      BY <2>1 DEF IsSchema, IsList
    <3>2. found = Within(fields, kind)
      BY <2>1, <3>1 DEF FieldsOfType
    <3>3. found \in Seq(S \cap kind)
      BY <3>1, <3>2, WithinType
    <3>. QED
      BY <3>1, <3>3
  <2>5. PICK f \in S : f = found[i] /\ "name" \in DOMAIN f /\ "type" \in DOMAIN f
    BY <2>1, <2>4 DEF IsSchema
  <2>6. PICK new : new = [f EXCEPT !.type = change.with] /\ new.name = f.name
    <3>1. PICK new : new = [f EXCEPT !.type = change.with]
      OBVIOUS
    <3>2. new.name = f.name
      BY <2>5, <3>1
    <3>. QED
      BY <3>1, <3>2
  <2>7. p.kind = "field" /\ p.name = f.name /\ p.body = [f EXCEPT !.type = change.with]
    <3>1. p = FieldPayload(new)
      BY <2>3, <2>5, <2>6
    <3>2. p = [kind |-> "field", name |-> new.name, body |-> new]
      BY <3>1 DEF FieldPayload
    <3>. QED
      BY <2>6, <3>2
  <2>8. ByReplace(p, change)
    BY <1>3, <2>1, <2>4, <2>5, <2>7 DEF ByReplace
  <2>. QED
    BY <2>8
<1>4. CASE change.op = "schema.analyzer.remove_filter"
  <2>1. PICK body : body = WithoutFilter(BaselineSchema, change)
    OBVIOUS
  <2>2. Payloads(BaselineSchema, change) = <<[kind |-> "type", name |-> change.fieldType, body |-> body]>>
    BY <1>4, <2>1 DEF Payloads
  <2>3. p = [kind |-> "type", name |-> change.fieldType, body |-> body]
    BY <1>1, <2>2 DEF ToSet
  <2>4. ByRemoval(p, change)
    BY <1>4, <2>3 DEF ByRemoval
  <2>. QED
    BY <2>4
<1>. QED
  BY <1>1, <1>2, <1>3, <1>4 DEF SchemaOps

(* A field that is asked for keeps its name.                               *)
LEMMA AskedNames ==
  ASSUME IsSchema(BaselineSchema), NEW p \in Asked, p.kind = "field"
  PROVE  p.body.name = p.name /\ "name" \in DOMAIN p.body
<1>1. PICK change \in ToSet(settings.changes) : ByUpdate(p, change) \/ ByReplace(p, change) \/ ByRemoval(p, change)
  BY AskedIs
<1>2. CASE ByUpdate(p, change)
  <2>1. PICK new : new = UpdatedField(BaselineSchema, change)
    OBVIOUS
  <2>2. new.name = change.field /\ "name" \in DOMAIN new
    BY <2>1, UpdatedIs
  <2>. QED
    BY <1>2, <2>1, <2>2 DEF ByUpdate
<1>3. CASE ByReplace(p, change)
  <2>1. PICK f \in ToSet(BaselineSchema.fields) : p.name = f.name /\ p.body = [f EXCEPT !.type = change.with]
    BY <1>3 DEF ByReplace
  <2>2. "name" \in DOMAIN f
    BY <2>1 DEF IsSchema
  <2>. QED
    BY <2>1, <2>2
<1>4. ~ByRemoval(p, change)
  BY DEF ByRemoval
<1>. QED
  BY <1>1, <1>2, <1>3, <1>4

(* Solr puts a field or type that it was asked for in the place of the one *)
(* that has its name.                                                      *)
LEMMA ReplacedBecame ==
  ASSUME IsSchema(BaselineSchema), NEW live, NEW now, Became(live, now), NEW p \in Asked, Replaceable(now, p)
  PROVE  Became(live, Replaced(now, p))
<1>1. PICK fields, types : fields = now.fields /\ types = now.types
  OBVIOUS
<1>2. now = [fields |-> fields, types |-> types, dynamic |-> live.dynamic, copies |-> live.copies]
  BY <1>1 DEF Became
<1>3. CASE p.kind = "type"
  <2>1. PICK more : more = [types EXCEPT ![p.name] = p.body]
    OBVIOUS
  <2>2. Replaced(now, p) = [fields |-> fields, types |-> more, dynamic |-> live.dynamic, copies |-> live.copies]
    BY <1>2, <1>3, <2>1 DEF Replaced
  <2>3. types = [type \in DOMAIN live.types |-> types[type]]
    BY <1>1 DEF Became
  <2>4. more = [type \in DOMAIN live.types |-> more[type]]
        /\ \A type \in DOMAIN live.types : type # p.name => more[type] = types[type]
    BY <2>1, <2>3
  <2>5. \A type \in DOMAIN live.types :
          \/ more[type] = live.types[type]
          \/ \E q \in Asked : q.kind = "type" /\ q.name = type
    <3> SUFFICES ASSUME NEW type \in DOMAIN live.types, more[type] # live.types[type]
                 PROVE  \E q \in Asked : q.kind = "type" /\ q.name = type
      OBVIOUS
    <3>1. CASE type = p.name
      BY <1>3, <3>1
    <3>2. CASE type # p.name
      BY <1>1, <2>4, <3>2 DEF Became
    <3>. QED
      BY <3>1, <3>2
  <2>6. /\ fields = [i \in DOMAIN live.fields |-> fields[i]]
        /\ \A i \in DOMAIN live.fields :
             \/ fields[i] = live.fields[i]
             \/ \E q \in Asked : q.kind = "field" /\ q.name = live.fields[i].name /\ q.body = fields[i]
    BY <1>1 DEF Became
  <2>7. PICK new : new = Replaced(now, p)
    OBVIOUS
  <2>8. new.fields = fields /\ new.types = more
    BY <2>2, <2>7
  <2>. QED
    BY <2>2, <2>4, <2>5, <2>6, <2>7, <2>8 DEF Became
<1>4. CASE p.kind # "type"
  <2>0. PICK new : new = [i \in DOMAIN fields |-> IF fields[i].name = p.name THEN p.body ELSE fields[i]]
    OBVIOUS
  <2>1. fields = [i \in DOMAIN live.fields |-> fields[i]]
    BY <1>1 DEF Became
  <2>2. new = [i \in DOMAIN live.fields |-> new[i]]
        /\ \A i \in DOMAIN live.fields : new[i] = IF fields[i].name = p.name THEN p.body ELSE fields[i]
    BY <2>0, <2>1
  <2>3. Replaced(now, p) = [fields |-> new, types |-> types, dynamic |-> live.dynamic, copies |-> live.copies]
    BY <1>2, <1>4, <2>0 DEF Replaced
  <2>4. p.kind = "field"
    <3>1. PICK change \in ToSet(settings.changes) : ByUpdate(p, change) \/ ByReplace(p, change) \/ ByRemoval(p, change)
      BY AskedIs
    <3>. QED
      BY <1>4, <3>1 DEF ByUpdate, ByReplace, ByRemoval
  <2>5. ASSUME NEW i \in DOMAIN live.fields
        PROVE  \/ new[i] = live.fields[i]
               \/ \E q \in Asked : q.kind = "field" /\ q.name = live.fields[i].name /\ q.body = new[i]
    <3>1. fields[i].name = live.fields[i].name
      <4>1. \/ fields[i] = live.fields[i]
            \/ \E q \in Asked : q.kind = "field" /\ q.name = live.fields[i].name /\ q.body = fields[i]
        BY <1>1 DEF Became
      <4>. QED
        BY <4>1, AskedNames
    <3>2. CASE fields[i].name = p.name
      BY <2>2, <2>4, <3>1, <3>2
    <3>3. CASE fields[i].name # p.name
      <4>1. new[i] = fields[i]
        BY <2>2, <3>3
      <4>2. \/ fields[i] = live.fields[i]
            \/ \E q \in Asked : q.kind = "field" /\ q.name = live.fields[i].name /\ q.body = fields[i]
        BY <1>1 DEF Became
      <4>. QED
        BY <4>1, <4>2
    <3>. QED
      BY <3>2, <3>3
  <2>6. /\ types = [type \in DOMAIN live.types |-> types[type]]
        /\ \A type \in DOMAIN live.types :
             \/ types[type] = live.types[type]
             \/ \E q \in Asked : q.kind = "type" /\ q.name = type
    BY <1>1 DEF Became
  <2>7. PICK after : after = Replaced(now, p)
    OBVIOUS
  <2>8. after.fields = new /\ after.types = types
    BY <2>3, <2>7
  <2>. QED
    BY <2>2, <2>3, <2>5, <2>6, <2>7, <2>8 DEF Became
<1>. QED
  BY <1>3, <1>4

(* A collection that has just been created has the schema that Solr has.   *)
LEMMA LiveBecame ==
  ASSUME NEW live, IsSchema(live)
  PROVE  Became(live, live)
BY DEF Became, IsSchema, IsList

(* The schema that the intake goes by is one.                              *)
LEMMA BaselineIsSchema ==
  ASSUME Given, SnapshotInv, baseline # <<>>
  PROVE  IsSchema(BaselineSchema)
<1>1. PICK collection \in Collections : Taken(collection)
  BY DEF SnapshotInv
<1>2. CASE CapturedAs(collection)
  BY <1>2, WellFormedSettings DEF WellFormed, CapturedAs, BaselineSchema
<1>3. CASE LoadedAs(collection)
  <2>1. PICK dir : dir = settings.solr.snapshot[1] /\ IsDirectory(dir)
    BY <1>3, WellFormedSettings DEF WellFormed, LoadedAs
  <2>2. dir["schema"].state = "written"
    BY <1>3, <2>1 DEF LoadedAs, LoadRaises, Complete, Files
  <2>. QED
    BY <1>3, <2>1, <2>2 DEF LoadedAs, IsDirectory, BaselineSchema
<1>. QED
  BY <1>1, <1>2, <1>3 DEF Taken

-----------------------------------------------------------------------------
(* The stages before create_shadow.                                        *)
Early == Outset \cup {"snapshot", "preflight"}

(* The inductive invariant about the schema of the shadow: it comes about  *)
(* by calls that the changes were made into, past a preflight that did not *)
(* block.                                                                  *)
SchemaInv ==
  /\ stage \in Early \/ shadow = <<>> => calls = <<>>
  /\ stage \in Early => shadow = <<>>
  /\ calls \in Seq(Asked)
  /\ shadow # <<>> => shadow = <<shadow[1]>> /\ Became(settings.baseline, shadow[1])
  /\ stage = "shadow_create" \/ shadow # <<>> =>
       /\ baseline # <<>> /\ risks = Preflight(BaselineSchema, settings.changes)
       /\ settings.fail_on_risk => ~HighRisk(risks)

(* It holds at the start.                                                  *)
LEMMA InitSchema ==
  ASSUME Init
  PROVE  SchemaInv
<1>1. stage = "validate" /\ shadow = <<>> /\ calls = <<>>
  BY DEF Init, IntakeInit
<1>2. <<>> \in Seq(Asked)
  OBVIOUS
<1>. QED
  BY <1>1, <1>2 DEF SchemaInv

(* The steps that neither look at the schema nor change it.                *)
LEMMA SchemaStays ==
  ASSUME [Next]_vars, ~RunPreflight, ~CreateCollection, ~PrepareChange, ~CallSchemaApi
  PROVE  /\ UNCHANGED <<settings, shadow, calls, risks>>
         /\ stage' = "shadow_create" => stage = "shadow_create"
         /\ stage' \in Early => stage \in Early
         /\ stage \notin {"snapshot"} => UNCHANGED baseline
<1>. USE DEF Early, Outset
<1>1. CASE UNCHANGED vars
  BY <1>1 DEF vars, intakeVars
<1>2. CASE IntakeNext
  <2>. USE DEF request, intakeVars, KeepFiles, KeepRun, Snapshotting, Creating, Loading, Enter, Raise, shadowVars, Loaded
  <2>1. CASE SnapshotNext /\ UNCHANGED <<plugins, risks, shadowVars, taken>>
    BY <2>1 DEF SnapshotNext, CaptureSnapshot, LoadSnapshot, WriteFile, DetectCompatibility, EndSnapshot
  <2>2. CASE ValidateChangeset \/ InitializePlugins
    BY <2>2 DEF ValidateChangeset, InitializePlugins
  <2>3. CASE PatchTarget \/ UploadConfigset \/ FinishShadow
    BY <2>3 DEF PatchTarget, UploadConfigset, PatchFails, FinishShadow
  <2>4. CASE LoadFromFile \/ LoadFromPlugin \/ ExtractFromLog \/ EndSampling
    BY <2>4 DEF LoadFromFile, LoadFromPlugin, ExtractFromLog, EndSampling
  <2>5. CASE TakeRow
    BY <2>5 DEF TakeRow
  <2>. QED
    BY <1>2, <2>1, <2>2, <2>3, <2>4, <2>5 DEF IntakeNext
<1>3. CASE ComparisonNext /\ UNCHANGED <<intakeVars, vectorVars>>
  BY <1>3 DEF ComparisonNext, Replay, Compare, SelectRewrites, FetchRewrite, EndRewrites, SelectExplains,
              FetchExplain, EvaluateGate, request, intakeVars, Enter
<1>4. CASE VectorNext /\ UNCHANGED <<intakeVars, comparisonVars>>
  BY <1>4, VectorCourse DEF request, intakeVars
<1>. QED
  BY <1>1, <1>2, <1>3, <1>4 DEF Next, Over

(* What a change is made into is a list.                                   *)
LEMMA PayloadsAreList ==
  ASSUME NEW schema, IsSchema(schema), NEW change, change.op \in SchemaOps
  PROVE  IsList(Payloads(schema, change))
<1>1. \A x : IsList(<<x>>)
  BY DEF IsList, ToSet
<1>2. CASE change.op = "schema.field.update"
  BY <1>1, <1>2 DEF Payloads
<1>3. CASE change.op = "schema.fieldType.replace"
  <2>1. PICK found, T : found = FieldsOfType(schema, change.name) /\ found \in Seq(T)
    <3>1. PICK fields, kind, S : /\ fields = schema.fields /\ fields \in Seq(S)
                                 /\ kind = {f \in ToSet(schema.fields) : f.type = change.name}
      BY DEF IsSchema, IsList
    <3>2. Within(fields, kind) \in Seq(S \cap kind)
      BY <3>1, WithinType
    <3>. QED
      BY <3>1, <3>2 DEF FieldsOfType
  <2>2. PICK n \in Nat : DOMAIN found = 1..n
    BY <2>1
  <2>3. PICK list : list = [i \in 1..n |-> FieldPayload([found[i] EXCEPT !.type = change.with])]
    OBVIOUS
  <2>4. Payloads(schema, change) = list
    BY <1>3, <2>1, <2>2, <2>3 DEF Payloads, RetypedFields
  <2>5. list = [i \in 1..n |-> list[i]] /\ \A i \in 1..n : list[i] \in ToSet(list)
    BY <2>3 DEF ToSet
  <2>6. list \in [1..n -> ToSet(list)]
    BY <2>5
  <2>. QED
    BY <2>4, <2>6 DEF IsList
<1>4. CASE change.op = "schema.analyzer.remove_filter"
  BY <1>1, <1>4 DEF Payloads
<1>. QED
  BY <1>2, <1>3, <1>4 DEF SchemaOps

(* The preflight is made of the baseline, and ends the run where it        *)
(* blocks; then the shadow gets the schema that Solr has, and the calls    *)
(* that the changes are made into.                                         *)
LEMMA SchemaStep ==
  ASSUME Given, SnapshotInv, AcceptedInv, SchemaInv, [Next]_vars
  PROVE  SchemaInv'
<1>0. UNCHANGED settings
  BY NextKeepsGiven
<1>1. CASE ~RunPreflight /\ ~CreateCollection /\ ~PrepareChange /\ ~CallSchemaApi
  <2>1. /\ UNCHANGED <<settings, shadow, calls, risks>>
        /\ stage' = "shadow_create" => stage = "shadow_create"
        /\ stage' \in Early => stage \in Early
        /\ stage \notin {"snapshot"} => UNCHANGED baseline
    BY <1>1, SchemaStays
  <2>2. CASE stage = "snapshot"
    <3>1. shadow = <<>> /\ calls = <<>> /\ stage' # "shadow_create"
      BY <2>1, <2>2 DEF SchemaInv, Early
    <3>2. <<>> \in Seq(Asked')
      OBVIOUS
    <3>. QED
      BY <2>1, <3>1, <3>2 DEF SchemaInv
  <2>3. CASE stage # "snapshot"
    <3>1. Asked' = Asked /\ BaselineSchema' = BaselineSchema
      BY <2>1, <2>3 DEF Asked, BaselineSchema
    <3>2. shadow # <<>> => Became(settings.baseline, shadow[1])'
      BY <2>1, <3>1 DEF SchemaInv, Became
    <3>. QED
      BY <2>1, <2>3, <3>1, <3>2 DEF SchemaInv
  <2>. QED
    BY <2>2, <2>3
<1>2. CASE RunPreflight
  <2>1. /\ stage = "preflight" /\ risks' = Preflight(BaselineSchema, settings.changes)
        /\ UNCHANGED <<baseline, shadow, calls>>
        /\ \/ settings.fail_on_risk /\ HighRisk(risks') /\ stage' = "failed"
           \/ ~(settings.fail_on_risk /\ HighRisk(risks')) /\ stage' = "shadow_create"
    BY <1>2 DEF RunPreflight, Enter, shadowVars
  <2>2. shadow = <<>> /\ calls = <<>>
    BY <2>1 DEF SchemaInv, Early
  <2>3. baseline # <<>>
    BY <2>1 DEF SnapshotInv, Later, Stages
  <2>4. <<>> \in Seq(Asked')
    OBVIOUS
  <2>5. BaselineSchema' = BaselineSchema
    BY <2>1 DEF BaselineSchema
  <2>. QED
    BY <1>0, <2>1, <2>2, <2>3, <2>4, <2>5 DEF SchemaInv, Early, Outset
<1>3. CASE CreateCollection \/ PrepareChange \/ CallSchemaApi
  <2>0. /\ stage = "shadow_create" /\ stage' \in {"shadow_create", "failed"} /\ UNCHANGED <<baseline, risks>>
    BY <1>3 DEF CreateCollection, PrepareChange, CallSchemaApi, Creating, KeepRun, Raise, Enter
  <2>1. Asked' = Asked /\ BaselineSchema' = BaselineSchema
    BY <1>0, <2>0 DEF Asked, BaselineSchema
  <2>2. IsSchema(BaselineSchema) /\ IsSchema(settings.baseline)
    BY <2>0, BaselineIsSchema, WellFormedSettings DEF SchemaInv, WellFormed
  <2>3. shadow' = shadow \/ (shadow' = <<shadow'[1]>> /\ Became(settings.baseline, shadow'[1]))
    <3>1. CASE CreateCollection
      BY <2>2, <3>1, LiveBecame DEF CreateCollection
    <3>2. CASE PrepareChange
      BY <3>2 DEF PrepareChange
    <3>3. CASE CallSchemaApi
      <4>1. CASE UNCHANGED shadow
        BY <4>1
      <4>2. CASE Replaceable(shadow[1], Head(calls)) /\ shadow' = <<Replaced(shadow[1], Head(calls))>>
        <5>1. calls # <<>> /\ shadow # <<>>
          BY <3>3 DEF CallSchemaApi, SchemaInv
        <5>2. PICK p \in Asked : p = Head(calls)
          BY <5>1 DEF SchemaInv
        <5>. QED
          BY <2>2, <4>2, <5>1, <5>2, ReplacedBecame DEF SchemaInv
      <4>. QED
        BY <3>3, <4>1, <4>2 DEF CallSchemaApi
    <3>. QED
      BY <1>3, <3>1, <3>2, <3>3
  <2>4. calls' \in Seq(Asked)
    <3>1. CASE calls' = calls
      BY <3>1 DEF SchemaInv
    <3>2. CASE CallSchemaApi /\ calls' = Tail(calls) /\ calls # <<>>
      BY <3>2 DEF SchemaInv
    <3>3. CASE PrepareChange /\ Change.op \in SchemaOps /\ calls' = Payloads(BaselineSchema, Change)
      <4>1. PICK change \in ToSet(settings.changes) : change = Change /\ change.op \in SchemaOps
        <5>1. worked \in Nat /\ worked < Len(settings.changes)
          BY <3>3 DEF PrepareChange, AcceptedInv
        <5>. QED
          BY <3>3, <5>1, WellFormedSettings DEF WellFormed, IsList, Change
      <4>2. PICK list : list = Payloads(BaselineSchema, change)
        OBVIOUS
      <4>3. ToSet(list) \subseteq Asked
        BY <4>1, <4>2 DEF Asked
      <4>4. IsList(list)
        BY <2>2, <4>1, <4>2, PayloadsAreList
      <4>. QED
        BY <3>3, <4>1, <4>2, <4>3, <4>4 DEF IsList
    <3>. QED
      BY <1>3, <3>1, <3>2, <3>3 DEF CreateCollection, PrepareChange, CallSchemaApi
  <2>5. shadow' = <<>> => calls' = <<>>
    <3>1. shadow = <<>> => calls = <<>>
      BY DEF SchemaInv
    <3>2. CASE CreateCollection
      <4>1. calls' = calls /\ shadow = <<>>
        BY <3>2 DEF CreateCollection
      <4>. QED
        BY <3>1, <4>1
    <3>3. CASE PrepareChange
      <4>1. shadow # <<>> /\ shadow' = shadow
        BY <3>3 DEF PrepareChange
      <4>. QED
        BY <4>1
    <3>4. CASE CallSchemaApi
      <4>1. shadow # <<>>
        BY <3>1, <3>4 DEF CallSchemaApi
      <4>2. shadow' = shadow \/ shadow' = <<Replaced(shadow[1], Head(calls))>>
        BY <3>4 DEF CallSchemaApi
      <4>. QED
        BY <4>1, <4>2
    <3>. QED
      BY <1>3, <3>2, <3>3, <3>4
  <2>6. shadow' # <<>> => shadow' = <<shadow'[1]>> /\ Became(settings.baseline, shadow'[1])
    <3>1. shadow # <<>> => shadow = <<shadow[1]>> /\ Became(settings.baseline, shadow[1])
      BY DEF SchemaInv
    <3>2. CASE shadow' = shadow
      BY <3>1, <3>2
    <3>. QED
      BY <2>3, <3>2
  <2>7. shadow' # <<>> => Became(settings.baseline, shadow[1])'
    BY <1>0, <2>1, <2>6 DEF Became
  <2>8. /\ baseline' # <<>> /\ risks' = Preflight(BaselineSchema, settings.changes)'
        /\ settings'.fail_on_risk => ~HighRisk(risks')
    BY <1>0, <2>0, <2>1 DEF SchemaInv
  <2>9. stage' \notin Early
    BY <2>0 DEF Early, Outset
  <2>10. calls' \in Seq(Asked')
    BY <2>1, <2>4
  <2>. QED
    BY <2>5, <2>6, <2>7, <2>8, <2>9, <2>10 DEF SchemaInv
<1>. QED
  BY <1>1, <1>2, <1>3

-----------------------------------------------------------------------------
(* The names of fields that come about are those that Solr has.            *)
LEMMA BecameNamed ==
  ASSUME IsSchema(BaselineSchema), NEW live, IsSchema(live), NEW now, Became(live, now)
  PROVE  Named(live.fields) /\ Named(now.fields) /\ DOMAIN now.fields = DOMAIN live.fields
         /\ \A i \in DOMAIN live.fields : now.fields[i].name = live.fields[i].name
<1>1. PICK fields : fields = now.fields /\ fields = [i \in DOMAIN live.fields |-> fields[i]]
  BY DEF Became
<1>2. \A i \in DOMAIN live.fields : fields[i].name = live.fields[i].name
  <2> SUFFICES ASSUME NEW i \in DOMAIN live.fields PROVE fields[i].name = live.fields[i].name
    OBVIOUS
  <2>1. \/ fields[i] = live.fields[i]
        \/ \E p \in Asked : p.kind = "field" /\ p.name = live.fields[i].name /\ p.body = fields[i]
    BY <1>1 DEF Became
  <2>. QED
    BY <2>1, AskedNames
<1>3. Named(live.fields)
  BY DEF IsSchema, Named
<1>4. DOMAIN fields = DOMAIN live.fields
  BY <1>1
<1>5. IsList(fields)
  <2>1. PICK n \in Nat : DOMAIN live.fields = 1..n
    BY DEF IsSchema, IsList
  <2>2. fields \in [1..n -> ToSet(fields)]
    BY <1>1, <2>1 DEF ToSet
  <2>. QED
    BY <2>2 DEF IsList
<1>6. Named(fields)
  BY <1>2, <1>3, <1>4, <1>5 DEF Named
<1>. QED
  BY <1>1, <1>2, <1>3, <1>4, <1>6

(* A field that comes to be analyzed otherwise has a type that a change    *)
(* touches; one that changes its type is updated, or its type is replaced. *)
LEMMA TypeTouched ==
  ASSUME NEW live, live = BaselineSchema, IsSchema(live), NEW now, Became(live, now),
         NEW i \in DOMAIN live.fields, NEW name, name = live.fields[i].name,
         NEW was, was = live.fields[i].type, NEW is, is = FieldNamed(now, name)[1].type,
         Analysis(live, name) # Analysis(now, name)
  PROVE  \E change \in ToSet(settings.changes) :
           /\ was \in TouchedTypes(live, change)
           /\ was # is => change.op = "schema.fieldType.replace" \/ name \in TouchedFields(change)
<1>1. Named(live.fields) /\ Named(now.fields) /\ DOMAIN now.fields = DOMAIN live.fields
      /\ \A j \in DOMAIN live.fields : now.fields[j].name = live.fields[j].name
  BY BecameNamed
<1>2. PICK f : f = live.fields[i] /\ FieldNamed(live, name)[1] = f /\ FieldNamed(live, name) # <<>>
  BY <1>1, FieldNamedIs
<1>3. PICK g : g = now.fields[i] /\ FieldNamed(now, name)[1] = g
  BY <1>1, FieldNamedIs
<1>4. \/ f = g
      \/ \E p \in Asked : p.kind = "field" /\ p.name = name /\ p.body = g
  <2>1. \/ now.fields[i] = live.fields[i]
        \/ \E p \in Asked : p.kind = "field" /\ p.name = live.fields[i].name /\ p.body = now.fields[i]
    BY DEF Became
  <2>. QED
    BY <1>2, <1>3, <2>1
<1>5. CASE was = is
  <2>1. was \in DOMAIN live.types /\ DOMAIN now.types = DOMAIN live.types /\ live.types[was] # now.types[was]
    <3>1. DOMAIN now.types = DOMAIN live.types
      BY DEF Became
    <3>. QED
      BY <1>2, <1>3, <1>5, <3>1 DEF Analysis
  <2>2. PICK p \in Asked : p.kind = "type" /\ p.name = was
    BY <2>1 DEF Became
  <2>3. PICK change \in ToSet(settings.changes) : ByRemoval(p, change)
    BY <2>2, AskedIs DEF ByUpdate, ByReplace
  <2>4. was \in TouchedTypes(live, change)
    BY <2>2, <2>3 DEF ByRemoval, TouchedTypes
  <2>. QED
    BY <1>5, <2>4
<1>6. CASE was # is
  <2>1. PICK p \in Asked : p.kind = "field" /\ p.name = name /\ p.body = g
    BY <1>2, <1>3, <1>4, <1>6
  <2>2. PICK change \in ToSet(settings.changes) : ByUpdate(p, change) \/ ByReplace(p, change)
    BY <2>1, AskedIs DEF ByRemoval
  <2>3. "type" \in DOMAIN f
    BY <1>2 DEF IsSchema, ToSet
  <2>4. CASE ByUpdate(p, change)
    <3>1. change.op = "schema.field.update" /\ change.field = name /\ g = UpdatedField(live, change)
      BY <2>1, <2>4 DEF ByUpdate
    <3>2. "type" \in DOMAIN change.set /\ change.set.type = is
      BY <1>2, <1>3, <1>6, <2>3, <3>1, UpdatedIs
    <3>3. PICK old : old = {FieldNamed(live, change.field)[j].type : j \in DOMAIN FieldNamed(live, change.field)}
      OBVIOUS
    <3>4. old = {was}
      <4>1. \A j \in DOMAIN FieldNamed(live, name) : FieldNamed(live, name)[j] = f
        <5> SUFFICES ASSUME NEW j \in DOMAIN FieldNamed(live, name) PROVE FieldNamed(live, name)[j] = f
          OBVIOUS
        <5>1. PICK m \in DOMAIN live.fields : live.fields[m].name = name /\ FieldNamed(live, name)[j] = live.fields[m]
          BY <1>1, FieldNamedIs
        <5>. QED
          BY <1>1, <1>2, <5>1 DEF Named
      <4>2. 1 \in DOMAIN FieldNamed(live, name)
        <5>1. PICK fields, S, kind : /\ fields = live.fields /\ fields \in Seq(S)
                                     /\ kind = {one \in ToSet(live.fields) : one.name = name}
          BY DEF IsSchema, IsList
        <5>2. Within(fields, kind) \in Seq(S \cap kind)
          BY <5>1, WithinType
        <5>3. PICK found : found = FieldNamed(live, name) /\ found \in Seq(S \cap kind)
          BY <5>1, <5>2 DEF FieldNamed
        <5>. QED
          BY <1>2, <5>3
      <4>. QED
        BY <1>2, <3>1, <3>3, <4>1, <4>2
    <3>5. TouchedTypes(live, change) = old \cup {is}
      BY <1>6, <3>1, <3>2, <3>3, <3>4 DEF TouchedTypes
    <3>6. name \in TouchedFields(change)
      BY <3>1 DEF TouchedFields
    <3>. QED
      BY <3>4, <3>5, <3>6
  <2>5. CASE ByReplace(p, change)
    <3>1. PICK h \in ToSet(live.fields) : h.type = change.name /\ p.name = h.name
      BY <2>5 DEF ByReplace
    <3>2. h = f
      <4>1. PICK m \in DOMAIN live.fields : live.fields[m] = h
        BY <3>1 DEF ToSet
      <4>2. live.fields[m].name = live.fields[i].name
        BY <2>1, <3>1, <4>1
      <4>3. m = i
        BY <1>1, <4>2 DEF Named
      <4>. QED
        BY <1>2, <4>1, <4>3
    <3>3. change.op = "schema.fieldType.replace" /\ was \in TouchedTypes(live, change)
      <4>1. change.op = "schema.fieldType.replace"
        BY <2>5 DEF ByReplace
      <4>2. TouchedTypes(live, change) = {change.name, change.with}
        BY <4>1 DEF TouchedTypes
      <4>3. was = change.name
        BY ONLY <1>2, <3>1, <3>2, was = live.fields[i].type
      <4>. QED
        BY <4>1, <4>2, <4>3
    <3>. QED
      BY <3>3
  <2>. QED
    BY <2>2, <2>4, <2>5
<1>. QED
  BY <1>5, <1>6

(* Of a type that a change touches the preflight names the fields; of the  *)
(* rules between its fields it names the rule, and it blocks on those that *)
(* copy to a field whose type is replaced.                                 *)
LEMMA TouchedIsFound ==
  ASSUME NEW live, Named(live.fields), NEW changes, NEW change \in ToSet(changes),
         NEW i \in DOMAIN live.fields, NEW name, name = live.fields[i].name,
         live.fields[i].type \in TouchedTypes(live, change),
         NEW report, report = Preflight(live, changes)
  PROVE  /\ \E f \in report : name \in f.fields
         /\ \A rule \in ToSet(live.copies) : name \in {rule.source, rule.dest} => \E f \in report : rule \in f.copies
         /\ \A rule \in ToSet(live.copies) : name = rule.dest /\ change.op = "schema.fieldType.replace" => HighRisk(report)
<1>1. PICK type : type = live.fields[i].type /\ type \in TouchedTypes(live, change)
  OBVIOUS
<1>2. FieldNamed(live, name) # <<>> /\ FieldNamed(live, name)[1] = live.fields[i]
  BY FieldNamedIs
<1>3. EndpointTypes(live, name) = {type}
  BY <1>1, <1>2 DEF EndpointTypes
<1>4. \A f \in Findings(live, change) : f \in report
  BY DEF Preflight
<1>5. \E f \in report : name \in f.fields
  <2>1. PICK names : names = {f.name : f \in ToSet(FieldsOfType(live, type))}
    OBVIOUS
  <2>2. name \in names
    <3>1. PICK fields, kind, S : /\ fields = live.fields /\ fields \in Seq(S)
                                 /\ kind = {f \in ToSet(live.fields) : f.type = type}
      BY DEF Named, IsList
    <3>2. ToSet(Within(fields, kind)) = ToSet(fields) \cap kind
      BY <3>1, WithinType
    <3>3. live.fields[i] \in ToSet(FieldsOfType(live, type))
      <4>1. live.fields[i] \in ToSet(live.fields)
        BY DEF ToSet
      <4>2. FieldsOfType(live, type) = Within(fields, kind)
        BY <3>1 DEF FieldsOfType
      <4>. QED
        BY <1>1, <3>1, <3>2, <4>1, <4>2
    <3>. QED
      BY <2>1, <3>3
  <2>3. PICK finding : finding = Finding("FIELDTYPE_IMPACT", "LOW", names, {})
    OBVIOUS
  <2>4. finding \in Findings(live, change)
    BY <1>1, <2>1, <2>2, <2>3 DEF Findings
  <2>5. finding.fields = names
    BY <2>3 DEF Finding
  <2>. QED
    BY <1>4, <2>2, <2>4, <2>5
<1>6. ASSUME NEW rule \in ToSet(live.copies), name \in {rule.source, rule.dest}
      PROVE  \E f \in report : rule \in f.copies
  <2>1. PICK copies : copies = RiskyCopies(live, change)
    OBVIOUS
  <2>2. rule \in copies
    BY <1>1, <1>3, <1>6, <2>1 DEF RiskyCopies
  <2>3. PICK finding : finding = Finding("COPYFIELD_COMPAT_RISK", "MEDIUM", TouchedFields(change), copies)
    OBVIOUS
  <2>4. finding \in Findings(live, change)
    BY <2>1, <2>2, <2>3 DEF Findings
  <2>5. finding.copies = copies
    BY <2>3 DEF Finding
  <2>. QED
    BY <1>4, <2>2, <2>4, <2>5
<1>7. ASSUME NEW rule \in ToSet(live.copies), name = rule.dest, change.op = "schema.fieldType.replace"
      PROVE  HighRisk(report)
  <2>1. PICK copies : copies = HazardousCopies(live, change)
    OBVIOUS
  <2>2. rule \in copies
    BY <1>1, <1>2, <1>3, <1>7, <2>1 DEF HazardousCopies
  <2>3. PICK finding : finding = Finding("REPLACE_FIELDTYPE_COPYFIELD_DEST_HAZARD", "HIGH", TouchedFields(change), copies)
    OBVIOUS
  <2>4. finding \in Findings(live, change)
    BY <2>1, <2>2, <2>3 DEF Findings
  <2>5. finding.severity = "HIGH"
    BY <2>3 DEF Finding
  <2>. QED
    BY <1>4, <2>4, <2>5 DEF HighRisk
<1>. QED
  BY <1>5, <1>6, <1>7

(* A field of the shadow that is not as Solr has it was named by a change, *)
(* or its type was.                                                        *)
LEMMA OthersAreLive ==
  ASSUME IsSchema(BaselineSchema), NEW live, NEW now, Became(live, now), NEW i \in DOMAIN live.fields,
         NEW name, name = live.fields[i].name
  PROVE  \/ \E change \in ToSet(settings.changes) : name \in TouchedFields(change)
         \/ \E known \in ToSet(FieldNamed(BaselineSchema, name)) :
              \E change \in ToSet(settings.changes) :
                change.op = "schema.fieldType.replace" /\ known.type = change.name
         \/ now.fields[i] = live.fields[i]
<1>1. SUFFICES ASSUME now.fields[i] # live.fields[i]
      PROVE  \/ \E change \in ToSet(settings.changes) : name \in TouchedFields(change)
             \/ \E known \in ToSet(FieldNamed(BaselineSchema, name)) :
                  \E change \in ToSet(settings.changes) :
                    change.op = "schema.fieldType.replace" /\ known.type = change.name
  OBVIOUS
<1>2. PICK p \in Asked : p.kind = "field" /\ p.name = name
  BY <1>1 DEF Became
<1>3. PICK change \in ToSet(settings.changes) : ByUpdate(p, change) \/ ByReplace(p, change)
  BY <1>2, AskedIs DEF ByRemoval
<1>4. CASE ByUpdate(p, change)
  BY <1>2, <1>4 DEF ByUpdate, TouchedFields
<1>5. CASE ByReplace(p, change)
  <2>1. PICK f \in ToSet(BaselineSchema.fields) :
          f.type = change.name /\ f.name = name /\ change.op = "schema.fieldType.replace"
    BY <1>2, <1>5 DEF ByReplace
  <2>2. PICK fields, kind, S : /\ fields = BaselineSchema.fields /\ fields \in Seq(S)
                               /\ kind = {one \in ToSet(BaselineSchema.fields) : one.name = name}
    BY DEF IsSchema, IsList
  <2>3. ToSet(Within(fields, kind)) = ToSet(fields) \cap kind
    BY <2>2, WithinType
  <2>4. f \in ToSet(FieldNamed(BaselineSchema, name))
    BY <2>1, <2>2, <2>3 DEF FieldNamed
  <2>. QED
    BY <2>1, <2>4
<1>. QED
  BY <1>3, <1>4, <1>5

(* So the preflight has told what comes to be on the shadow.               *)
LEMMA SchemaForetold ==
  ASSUME Given, SnapshotInv, SchemaInv
  PROVE  PreflightForetells
<1>. DEFINE live == settings.baseline
            changed == {f.name : f \in {g \in ToSet(live.fields) :
                          Analysis(live, g.name) # Analysis(shadow[1], g.name)}}
            updated == UNION {TouchedFields(settings.changes[n]) : n \in DOMAIN settings.changes}
            replaced == {change.name : change \in {c \in ToSet(settings.changes) : c.op = "schema.fieldType.replace"}}
<1>1. SUFFICES ASSUME shadow # <<>>
      PROVE  /\ BaselineSchema = live =>
                  /\ \A name \in changed : \E f \in risks : name \in f.fields
                  /\ \A rule \in ToSet(live.copies) : {rule.source, rule.dest} \cap changed # {} =>
                       /\ \E f \in risks : rule \in f.copies
                       /\ settings.fail_on_risk /\ rule.dest \in changed /\ rule.dest \notin updated =>
                            FieldNamed(live, rule.dest)[1].type = FieldNamed(shadow[1], rule.dest)[1].type
             /\ \A i \in DOMAIN live.fields :
                  \/ live.fields[i].name \in updated
                  \/ \E known \in ToSet(FieldNamed(BaselineSchema, live.fields[i].name)) : known.type \in replaced
                  \/ shadow[1].fields[i] = live.fields[i]
  BY DEF PreflightForetells
<1>2. PICK now : now = shadow[1] /\ Became(live, now)
  BY <1>1 DEF SchemaInv
<1>3. /\ IsSchema(BaselineSchema) /\ IsSchema(live) /\ risks = Preflight(BaselineSchema, settings.changes)
      /\ settings.fail_on_risk => ~HighRisk(risks)
  BY <1>1, BaselineIsSchema, WellFormedSettings DEF SchemaInv, WellFormed
<1>4. Named(live.fields)
  BY <1>2, <1>3, BecameNamed
<1>5. \A change \in ToSet(settings.changes) : TouchedFields(change) \subseteq updated
  BY DEF ToSet
<1>6. ASSUME NEW i \in DOMAIN live.fields
      PROVE  \/ live.fields[i].name \in updated
             \/ \E known \in ToSet(FieldNamed(BaselineSchema, live.fields[i].name)) : known.type \in replaced
             \/ shadow[1].fields[i] = live.fields[i]
  <2>. HIDE DEF updated
  <2>. QED
    BY <1>2, <1>3, <1>5, OthersAreLive
<1>7. ASSUME BaselineSchema = live, NEW name \in changed
      PROVE  /\ \E f \in risks : name \in f.fields
             /\ \A rule \in ToSet(live.copies) :
                  /\ name \in {rule.source, rule.dest} => \E f \in risks : rule \in f.copies
                  /\ settings.fail_on_risk /\ rule.dest = name /\ name \notin updated =>
                       FieldNamed(live, name)[1].type = FieldNamed(now, name)[1].type
  <2>1. PICK i \in DOMAIN live.fields :
          name = live.fields[i].name /\ Analysis(live, name) # Analysis(now, name)
    BY <1>2, <1>7 DEF ToSet
  <2>2. PICK was, is : was = live.fields[i].type /\ is = FieldNamed(now, name)[1].type
    OBVIOUS
  <2>3. PICK change \in ToSet(settings.changes) :
           /\ was \in TouchedTypes(live, change)
           /\ was # is => change.op = "schema.fieldType.replace" \/ name \in TouchedFields(change)
    BY <1>2, <1>3, <1>7, <2>1, <2>2, TypeTouched
  <2>4. FieldNamed(live, name)[1].type = was
    BY <1>4, <2>1, <2>2, FieldNamedIs
  <2>5. /\ \E f \in risks : name \in f.fields
        /\ \A rule \in ToSet(live.copies) : name \in {rule.source, rule.dest} => \E f \in risks : rule \in f.copies
        /\ \A rule \in ToSet(live.copies) : name = rule.dest /\ change.op = "schema.fieldType.replace" => HighRisk(risks)
    BY <1>3, <1>4, <1>7, <2>1, <2>2, <2>3, TouchedIsFound
  <2>6. name \notin updated => name \notin TouchedFields(change)
    BY <1>5
  <2>. HIDE DEF updated
  <2>. QED
    BY <1>3, <2>2, <2>3, <2>4, <2>5, <2>6
<1>. HIDE DEF changed, updated, replaced
<1>. QED
  BY <1>2, <1>6, <1>7

(* schema/preflight.py against changesets/apply_schema.py: where the       *)
(* snapshot is still what Solr has, every field that comes to be analyzed  *)
(* otherwise, and every copyField rule at one, is in the report, and where *)
(* risks block no target of a rule changes its type but by an update of    *)
(* its own; in any case a field that no change names, nor its type, is as  *)
(* Solr has it; for any schema and changes, whatever calls fail.           *)
THEOREM PreflightHasForetold == Spec => []PreflightForetells
<1>1. Init => Given /\ SnapshotInv /\ AcceptedInv /\ SchemaInv
  BY InitSnapshot, InitAccepted, InitSchema
<1>2. Given /\ SnapshotInv /\ AcceptedInv /\ SchemaInv /\ [Next]_vars => (Given /\ SnapshotInv /\ AcceptedInv /\ SchemaInv)'
  BY SnapshotStep, AcceptedStep, SchemaStep
<1>3. Given /\ SnapshotInv /\ SchemaInv => PreflightForetells
  BY SchemaForetold
<1>. QED
  BY <1>1, <1>2, <1>3, PTL DEF Spec

-----------------------------------------------------------------------------
(* What is kept of the lines of a file.                                    *)
LEMMA KeptIs ==
  ASSUME NEW x \in Seq(Nat)
  PROVE  /\ Kept(x) = Within(x, Nat \ {0}) /\ Kept(x) \in Seq(Nat)
         /\ ToSet(Kept(x)) = ToSet(x) \ {0}
<1>1. PICK kind : kind = ToSet(x) \ {0}
  OBVIOUS
<1>2. PICK like : like = Nat \ {0}
  OBVIOUS
<1>3. Kept(x) = Within(x, kind)
  BY <1>1, Zenon DEF Kept, Omitting
<1>4. ToSet(x) \subseteq Nat
  BY DEF ToSet
<1>5. ToSet(x) \cap kind = ToSet(x) \cap like
  BY <1>1, <1>2, <1>4
<1>6. Within(x, kind) = Within(x, like)
  BY <1>5, WithinAgrees
<1>7. Within(x, kind) \in Seq(Nat)
  BY WithinKeeps
<1>8. ToSet(Within(x, kind)) = ToSet(x) \cap kind
  BY WithinType
<1>. QED
  BY <1>1, <1>2, <1>3, <1>6, <1>7, <1>8

(* The blank lines of two lists are left out of each.                      *)
LEMMA KeptConcat ==
  ASSUME NEW x \in Seq(Nat), NEW y \in Seq(Nat)
  PROVE  Kept(x \o y) = Kept(x) \o Kept(y)
<1>1. PICK like : like = Nat \ {0}
  OBVIOUS
<1>2. PICK z : z = x \o y
  OBVIOUS
<1>3. z \in Seq(Nat)
  BY <1>2, ConcatRange
<1>4. Kept(z) = Within(z, like) /\ Kept(x) = Within(x, like) /\ Kept(y) = Within(y, like)
  BY <1>1, <1>3, KeptIs
<1>5. Within(z, like) = Within(x, like) \o Within(y, like)
  BY <1>2, WithinConcat
<1>. QED
  BY <1>2, <1>4, <1>5

(* Lines none of which is blank are all kept.                              *)
LEMMA KeptAgain ==
  ASSUME NEW x \in Seq(Nat), 0 \notin ToSet(x)
  PROVE  Kept(x) = x
<1>1. PICK like : like = Nat \ {0}
  OBVIOUS
<1>2. ToSet(x) \subseteq like
  BY <1>1 DEF ToSet
<1>3. Within(x, like) = x
  BY <1>2, WithinAll
<1>. QED
  BY <1>1, <1>3, KeptIs

-----------------------------------------------------------------------------
(* One line worked into others, and lines worked in one after the other.   *)
LineMerged(u, line) == IF line \in ToSet(u) THEN u ELSE Append(u, line)

Merging(c, x, k) == \A n \in 1..k : c[n] = LineMerged(c[n - 1], x[n])

MergesTo(x, k, T, merged) == \E c \in [0..k -> T] : c[0] = <<>> /\ c[k] = merged /\ Merging(c, x, k)

(* A merge goes along the lines of both lists.                             *)
LEMMA DedupeIs ==
  ASSUME NEW T, T = Seq(Nat), NEW a \in T, NEW b \in T, NEW x, x = a \o b, NEW k \in Nat, k = Len(x)
  PROVE  MergesTo(x, k, T, DedupeMerge(a, b))
<1>1. x \in Seq(Nat) /\ DOMAIN x = 1..k /\ <<>> \in T
  OBVIOUS
<1>2. PICK step : step = [p \in (1..k) \X T |-> LineMerged(p[2], x[p[1]])]
  OBVIOUS
<1>3. step \in [(1..k) \X T -> T] /\ <<>> \in T
  <2>1. ASSUME NEW n \in 1..k, NEW old \in T PROVE LineMerged(old, x[n]) \in T
    BY <1>1 DEF LineMerged
  <2>. QED
    BY <1>1, <1>2, <2>1
<1>4. PICK f \in [SUBSET (1..k) -> T] : Folds(f, <<>>, step, k)
  BY <1>1, <1>3, FoldExists
<1>5. \A s \in SUBSET (1..k) : s # {} => Max(s) \in 1..k /\ s \ {Max(s)} \in SUBSET (1..k)
  BY GreatestNumber
<1>. DEFINE Is(it) == it = [s \in SUBSET (1..k) |->
                           IF s = {} THEN <<>> ELSE LineMerged(it[s \ {Max(s)}], x[Max(s)])]
<1>6. DedupeMerge(a, b) = (CHOOSE it : Is(it))[1..k]
  BY <1>1 DEF DedupeMerge, FoldLeft, MapThenFoldSet, LineMerged
<1>7. Is(f)
  <2>1. f = [s \in SUBSET (1..k) |-> f[s]]
    OBVIOUS
  <2>2. ASSUME NEW s \in SUBSET (1..k)
        PROVE  f[s] = IF s = {} THEN <<>> ELSE LineMerged(f[s \ {Max(s)}], x[Max(s)])
    <3>1. CASE s = {}
      BY <1>4, <3>1 DEF Folds
    <3>2. CASE s # {}
      <4>1. f[s] = step[<<Max(s), f[s \ {Max(s)}]>>]
        BY <1>4, <3>2 DEF Folds
      <4>2. Max(s) \in 1..k /\ f[s \ {Max(s)}] \in T
        BY <1>4, <1>5, <3>2
      <4>. QED
        BY <1>2, <3>2, <4>1, <4>2
    <3>. QED
      BY <3>1, <3>2
  <2>. QED
    BY <2>1, <2>2
<1>8. PICK it : it = (CHOOSE any : Is(any))
  OBVIOUS
<1>9. Is(it)
  <2>. HIDE DEF Is
  <2>. QED
    BY <1>7, <1>8, Zenon
<1>10. \A s \in SUBSET (1..k) : it[s] = IF s = {} THEN <<>> ELSE LineMerged(it[s \ {Max(s)}], x[Max(s)])
  BY <1>9, Zenon
<1>11. Unfolds(it, <<>>, step, k, T)
  <2>1. it[{}] = <<>>
    <3>1. {} \in SUBSET (1..k)
      OBVIOUS
    <3>. QED
      BY <1>10, <3>1, Zenon
  <2>2. ASSUME NEW s \in SUBSET (1..k), s # {}, it[s \ {Max(s)}] \in T
        PROVE  it[s] = step[<<Max(s), it[s \ {Max(s)}]>>]
    <3>1. PICK m \in 1..k : m = Max(s)
      BY <1>5, <2>2
    <3>2. PICK old \in T : old = it[s \ {Max(s)}]
      BY <2>2
    <3>3. it[s] = LineMerged(old, x[m])
      BY <1>10, <2>2, <3>1, <3>2, Zenon
    <3>4. step[<<m, old>>] = LineMerged(old, x[m])
      BY <1>2
    <3>. QED
      BY <3>1, <3>2, <3>3, <3>4
  <2>. QED
    BY <2>1, <2>2 DEF Unfolds
<1>12. PICK c \in [0..k -> T] : c[k] = it[1..k] /\ Chain(c, <<>>, step, k)
  BY <1>1, <1>3, <1>11, FoldChain
<1>13. ASSUME NEW n \in 1..k PROVE c[n] = LineMerged(c[n - 1], x[n])
  <2>1. PICK old \in T : old = c[n - 1]
    <3>1. n - 1 \in 0..k
      OBVIOUS
    <3>2. c[n - 1] \in T
      BY <3>1
    <3>. QED
      BY <3>2
  <2>2. step[<<n, old>>] = LineMerged(old, x[n])
    BY <1>2
  <2>. QED
    BY <1>12, <2>1, <2>2 DEF Chain
<1>14. c[k] = DedupeMerge(a, b) /\ c[0] = <<>>
  BY <1>6, <1>8, <1>12 DEF Chain
<1>15. Merging(c, x, k)
  BY <1>13 DEF Merging
<1>. QED
  BY <1>14, <1>15 DEF MergesTo

(* Every line once, at the place where it first is.                        *)
Once(x) == DedupeMerge(<<>>, x)

(* The merge of two lists.                                                 *)
LEMMA MergeIsOnce ==
  ASSUME NEW a \in Seq(Nat), NEW b \in Seq(Nat)
  PROVE  DedupeMerge(a, b) = Once(a \o b)
<1>1. PICK ab : ab = a \o b
  OBVIOUS
<1>2. ab \in Seq(Nat)
  BY <1>1, ConcatRange
<1>3. <<>> \o ab = ab
  BY <1>2
<1>. QED
  BY <1>1, <1>3, Zenon DEF Once, DedupeMerge

(* The lines, each once, are there after the last step.                    *)
LEMMA OnceIs ==
  ASSUME NEW T, T = Seq(Nat), NEW x \in T, NEW k \in Nat, k = Len(x)
  PROVE  \E c \in [0..k -> T] : c[0] = <<>> /\ c[k] = Once(x) /\ Merging(c, x, k)
<1>1. PICK none : none = <<>>
  OBVIOUS
<1>2. none \in T /\ x = none \o x
  BY <1>1
<1>3. MergesTo(x, k, T, DedupeMerge(none, x))
  BY <1>2, DedupeIs
<1>. QED
  BY <1>1, <1>3 DEF Once, MergesTo

(* Merging is determined by where it starts.                               *)
LEMMA MergingSame ==
  ASSUME NEW x, NEW k \in Nat, NEW c, NEW d, c[0] = d[0], Merging(c, x, k), Merging(d, x, k)
  PROVE  c[k] = d[k]
<1>1. PICK Good : Good = {n \in 0..k : c[n] = d[n]}
  OBVIOUS
<1>2. 0 \in Good
  BY <1>1
<1>3. ASSUME NEW n \in 0..(k - 1), n \in Good PROVE n + 1 \in Good
  <2>1. n + 1 \in 1..k /\ (n + 1) - 1 = n /\ n + 1 \in 0..k
    OBVIOUS
  <2>2. c[n + 1] = LineMerged(c[n], x[n + 1]) /\ d[n + 1] = LineMerged(d[n], x[n + 1])
    BY <2>1 DEF Merging
  <2>. QED
    BY <1>1, <1>3, <2>1, <2>2
<1>4. 0..k \subseteq Good
  BY <1>2, <1>3, ChainInduction
<1>. QED
  BY <1>1, <1>4

(* One line more.                                                          *)
LEMMA MergedIs ==
  ASSUME NEW u \in Seq(Nat), NEW line \in Nat, NEW w, w = LineMerged(u, line)
  PROVE  /\ w \in Seq(Nat) /\ ToSet(w) = ToSet(u) \cup {line}
         /\ Distinct(u) => Distinct(w)
<1>1. CASE line \in ToSet(u)
  BY <1>1 DEF LineMerged
<1>2. CASE line \notin ToSet(u)
  <2>1. w = Append(u, line)
    BY <1>2 DEF LineMerged
  <2>2. /\ w \in Seq(Nat) /\ Len(w) = Len(u) + 1 /\ w[Len(u) + 1] = line
        /\ \A i \in 1..Len(u) : w[i] = u[i]
    BY <2>1, OneMore
  <2>3. ToSet(w) = ToSet(u) \cup {line}
    BY <2>1, AppendRange
  <2>4. ASSUME Distinct(u), NEW p \in 1..Len(w), NEW q \in 1..Len(w), w[p] = w[q] PROVE p = q
    <3>1. Len(u) \in Nat /\ \A i \in 1..Len(w) : i \in 1..Len(u) \/ i = Len(u) + 1
      BY <2>2
    <3>2. \A i \in 1..Len(u) : w[i] # line
      BY <1>2, <2>2, ToSetIs
    <3>3. CASE p \in 1..Len(u) /\ q \in 1..Len(u)
      BY <2>2, <2>4, <3>3 DEF Distinct
    <3>. QED
      BY <2>2, <2>4, <3>1, <3>2, <3>3
  <2>5. Distinct(u) => Distinct(w)
    BY <2>4 DEF Distinct
  <2>. QED
    BY <2>2, <2>3, <2>5
<1>. QED
  BY <1>1, <1>2

(* Every line is there and no other, and none twice.                       *)
LEMMA OnceType ==
  ASSUME NEW x \in Seq(Nat)
  PROVE  Once(x) \in Seq(Nat) /\ Distinct(Once(x)) /\ ToSet(Once(x)) = ToSet(x)
<1>1. PICK T : T = Seq(Nat)
  OBVIOUS
<1>2. PICK k \in Nat : k = Len(x)
  OBVIOUS
<1>3. PICK c \in [0..k -> T] : c[0] = <<>> /\ c[k] = Once(x) /\ Merging(c, x, k)
  BY <1>1, <1>2, OnceIs
<1>4. PICK Good : Good = {n \in 0..k : Distinct(c[n]) /\ ToSet(c[n]) = {x[i] : i \in 1..n}}
  OBVIOUS
<1>5. 0 \in Good
  <2>1. PICK empty : empty = <<>>
    OBVIOUS
  <2>2. Distinct(empty) /\ ToSet(empty) = {} /\ 1..0 = {}
    BY <2>1 DEF Distinct, ToSet
  <2>. QED
    BY <1>3, <1>4, <2>1, <2>2
<1>6. ASSUME NEW n \in 0..(k - 1), n \in Good PROVE n + 1 \in Good
  <2>1. n + 1 \in 1..k /\ (n + 1) - 1 = n /\ n + 1 \in 0..k /\ n \in 0..k
    OBVIOUS
  <2>2. PICK old, new : old = c[n] /\ new = c[n + 1]
    OBVIOUS
  <2>3. PICK line \in Nat : line = x[n + 1]
    BY <1>2, <2>1
  <2>4. old \in Seq(Nat) /\ new = LineMerged(old, line)
    BY <1>1, <1>3, <2>1, <2>2, <2>3 DEF Merging
  <2>5. Distinct(new) /\ ToSet(new) = ToSet(old) \cup {line}
    BY <1>4, <1>6, <2>2, <2>4, MergedIs
  <2>6. {x[i] : i \in 1..(n + 1)} = {x[i] : i \in 1..n} \cup {x[n + 1]}
    <3>1. 1..(n + 1) = (1..n) \cup {n + 1}
      OBVIOUS
    <3>. QED
      BY <3>1
  <2>. QED
    BY <1>4, <1>6, <2>1, <2>2, <2>3, <2>5, <2>6
<1>7. k \in Good
  <2>1. 0..k \subseteq Good
    BY <1>5, <1>6, ChainInduction
  <2>. QED
    BY <2>1
<1>8. c[k] \in T
  BY <1>3
<1>9. ToSet(x) = {x[i] : i \in 1..k}
  BY <1>2 DEF ToSet
<1>. QED
  BY <1>1, <1>3, <1>4, <1>7, <1>8, <1>9

(* Of lines none of which is there twice it leaves all.                    *)
LEMMA OnceAgain ==
  ASSUME NEW x \in Seq(Nat), Distinct(x)
  PROVE  Once(x) = x
<1>1. PICK T : T = Seq(Nat)
  OBVIOUS
<1>2. PICK k \in Nat : k = Len(x)
  OBVIOUS
<1>3. PICK c \in [0..k -> T] : c[0] = <<>> /\ c[k] = Once(x) /\ Merging(c, x, k)
  BY <1>1, <1>2, OnceIs
<1>4. PICK Good : Good = {n \in 0..k : Len(c[n]) = n /\ \A i \in 1..n : c[n][i] = x[i]}
  OBVIOUS
<1>5. 0 \in Good
  BY <1>3, <1>4
<1>6. ASSUME NEW n \in 0..(k - 1), n \in Good PROVE n + 1 \in Good
  <2>1. n + 1 \in 1..k /\ (n + 1) - 1 = n /\ n + 1 \in 0..k /\ n \in 0..k
    OBVIOUS
  <2>2. PICK old, new : old = c[n] /\ new = c[n + 1]
    OBVIOUS
  <2>3. PICK line \in Nat : line = x[n + 1]
    BY <1>2, <2>1
  <2>4. old \in Seq(Nat) /\ new = LineMerged(old, line)
    BY <1>1, <1>3, <2>1, <2>2, <2>3 DEF Merging
  <2>5. Len(old) = n /\ \A i \in 1..n : old[i] = x[i]
    BY <1>4, <1>6, <2>2
  <2>6. line \notin ToSet(old)
    <3>1. ASSUME NEW i \in 1..Len(old), old[i] = line PROVE FALSE
      <4>1. i \in 1..Len(x) /\ n + 1 \in 1..Len(x) /\ x[i] = x[n + 1] /\ i # n + 1
        BY <1>2, <2>1, <2>3, <2>5, <3>1
      <4>. QED
        BY <4>1 DEF Distinct
    <3>. QED
      BY <2>4, <3>1, ToSetIs
  <2>7. new = Append(old, line)
    BY <2>4, <2>6 DEF LineMerged
  <2>8. Len(new) = n + 1 /\ new[n + 1] = line /\ \A i \in 1..n : new[i] = old[i]
    <3>1. Len(new) = Len(old) + 1 /\ new[Len(old) + 1] = line /\ \A i \in 1..Len(old) : new[i] = old[i]
      BY <2>4, <2>7, OneMore
    <3>. QED
      BY <2>5, <3>1
  <2>9. \A i \in 1..(n + 1) : new[i] = x[i]
    BY <2>3, <2>5, <2>8
  <2>. QED
    BY <1>4, <2>1, <2>2, <2>8, <2>9
<1>7. k \in Good
  <2>1. 0..k \subseteq Good
    BY <1>5, <1>6, ChainInduction
  <2>. QED
    BY <2>1
<1>8. PICK w : w = c[k]
  OBVIOUS
<1>9. w \in Seq(Nat) /\ Len(w) = Len(x) /\ \A i \in 1..Len(w) : w[i] = x[i]
  BY <1>1, <1>2, <1>3, <1>4, <1>7, <1>8
<1>10. w = x
  BY <1>9, SameItems
<1>. QED
  BY <1>3, <1>8, <1>10

(* Of two lists in a row, the second is worked into what is left of the    *)
(* first.                                                                  *)
LEMMA OnceAfter ==
  ASSUME NEW a \in Seq(Nat), NEW b \in Seq(Nat), NEW j \in Nat, j = Len(b), NEW T, T = Seq(Nat)
  PROVE  \E d \in [0..j -> T] : d[0] = Once(a) /\ d[j] = Once(a \o b) /\ Merging(d, b, j)
<1>1. PICK i \in Nat : i = Len(a)
  OBVIOUS
<1>2. PICK x : x = a \o b
  OBVIOUS
<1>3. /\ x \in Seq(Nat) /\ Len(x) = i + j
      /\ \A p \in 1..i : x[p] = a[p]
      /\ \A p \in 1..j : x[i + p] = b[p]
  <2>1. /\ x \in Seq(Nat) /\ Len(x) = Len(a) + Len(b)
        /\ \A p \in 1..Len(a) : x[p] = a[p]
        /\ \A p \in 1..Len(b) : x[p + Len(a)] = b[p]
    BY <1>2, ConcatIs
  <2>2. \A p \in 1..j : p + Len(a) = i + p
    BY <1>1
  <2>. QED
    BY <1>1, <2>1, <2>2
<1>4. PICK k \in Nat : k = i + j
  <2>1. i + j \in Nat
    BY <1>1
  <2>. QED
    BY <2>1
<1>5. PICK c \in [0..k -> T] : c[0] = <<>> /\ c[k] = Once(x) /\ Merging(c, x, k)
  BY <1>3, <1>4, OnceIs
<1>6. c[i] = Once(a)
  <2>1. PICK g \in [0..i -> T] : g[0] = <<>> /\ g[i] = Once(a) /\ Merging(g, a, i)
    BY <1>1, OnceIs
  <2>2. Merging(c, a, i)
    <3>1. \A n \in 1..i : n \in 1..k
      BY <1>4
    <3>. QED
      BY <1>3, <1>5, <3>1 DEF Merging
  <2>3. c[0] = g[0]
    BY <1>5, <2>1
  <2>. QED
    BY <2>1, <2>2, <2>3, MergingSame
<1>7. PICK d : d = [n \in 0..j |-> c[i + n]]
  OBVIOUS
<1>8. d \in [0..j -> T]
  <2>1. \A n \in 0..j : i + n \in 0..k
    BY <1>4
  <2>. QED
    BY <1>7, <2>1
<1>9. Merging(d, b, j)
  <2>1. ASSUME NEW n \in 1..j PROVE d[n] = LineMerged(d[n - 1], b[n])
    <3>1. /\ i + n \in 1..k /\ (i + n) - 1 = i + (n - 1) /\ n - 1 \in 0..j /\ n \in 0..j
      BY <1>4
    <3>2. c[i + n] = LineMerged(c[i + (n - 1)], x[i + n])
      BY <1>5, <3>1 DEF Merging
    <3>. QED
      BY <1>3, <1>7, <3>1, <3>2
  <2>. QED
    BY <2>1 DEF Merging
<1>10. d[0] = c[i] /\ d[j] = c[k]
  BY <1>4, <1>7
<1>. QED
  BY <1>2, <1>5, <1>6, <1>8, <1>9, <1>10

(* It makes no difference whether lines that are repeated are left out     *)
(* before more lines come.                                                 *)
LEMMA OnceOfOnce ==
  ASSUME NEW a \in Seq(Nat), NEW b \in Seq(Nat)
  PROVE  Once(Once(a) \o b) = Once(a \o b)
<1>1. PICK j \in Nat : j = Len(b)
  OBVIOUS
<1>2. PICK T : T = Seq(Nat)
  OBVIOUS
<1>3. PICK u : u = Once(a)
  OBVIOUS
<1>4. u \in Seq(Nat) /\ Once(u) = u
  <2>1. u \in Seq(Nat) /\ Distinct(u)
    BY <1>3, OnceType
  <2>. QED
    BY <2>1, OnceAgain
<1>5. PICK d \in [0..j -> T] : d[0] = Once(a) /\ d[j] = Once(a \o b) /\ Merging(d, b, j)
  BY <1>1, <1>2, OnceAfter
<1>6. PICK e \in [0..j -> T] : e[0] = Once(u) /\ e[j] = Once(u \o b) /\ Merging(e, b, j)
  BY <1>1, <1>2, <1>4, OnceAfter
<1>7. d[0] = e[0]
  BY <1>3, <1>4, <1>5, <1>6
<1>8. d[j] = e[j]
  BY <1>5, <1>6, <1>7, MergingSame
<1>. QED
  BY <1>3, <1>5, <1>6, <1>8

(* Lines that are there already change nothing.                            *)
LEMMA OnceHas ==
  ASSUME NEW u \in Seq(Nat), Distinct(u), NEW b \in Seq(Nat), ToSet(b) \subseteq ToSet(u)
  PROVE  Once(u \o b) = u
<1>1. PICK j \in Nat : j = Len(b)
  OBVIOUS
<1>2. PICK T : T = Seq(Nat)
  OBVIOUS
<1>3. PICK d \in [0..j -> T] : d[0] = Once(u) /\ d[j] = Once(u \o b) /\ Merging(d, b, j)
  BY <1>1, <1>2, OnceAfter
<1>4. PICK Good : Good = {n \in 0..j : d[n] = u}
  OBVIOUS
<1>5. 0 \in Good
  <2>1. Once(u) = u
    BY OnceAgain
  <2>. QED
    BY <1>3, <1>4, <2>1
<1>6. ASSUME NEW n \in 0..(j - 1), n \in Good PROVE n + 1 \in Good
  <2>1. n + 1 \in 1..j /\ (n + 1) - 1 = n /\ n + 1 \in 0..j
    OBVIOUS
  <2>2. d[n + 1] = LineMerged(d[n], b[n + 1])
    BY <1>3, <2>1 DEF Merging
  <2>3. b[n + 1] \in ToSet(u)
    <3>1. b[n + 1] \in ToSet(b)
      BY <1>1, <2>1 DEF ToSet
    <3>. QED
      BY <3>1
  <2>4. d[n] = u
    BY <1>4, <1>6
  <2>. QED
    BY <1>4, <2>1, <2>2, <2>3, <2>4 DEF LineMerged
<1>7. 0..j \subseteq Good
  BY <1>5, <1>6, ChainInduction
<1>. QED
  BY <1>3, <1>4, <1>7

-----------------------------------------------------------------------------
(* What each mode makes of the lines of a file and those of a source.      *)
Applied(new, old, text, mode) ==
  /\ new \in Seq(Nat) /\ 0 \notin ToSet(new) /\ ToSet(Kept(text)) \subseteq ToSet(new)
  /\ mode = "replace" => new = Kept(text)
  /\ mode = "patch_append" => new = Kept(old) \o Kept(text)
  /\ mode = "patch_merge" =>
       /\ new = Once(Kept(old) \o Kept(text)) /\ Distinct(new)
       /\ ToSet(old) \ {0} \subseteq ToSet(new)

(* That is so of the three modes of shadow/configset_patcher.py.           *)
LEMMA ApplyIs ==
  ASSUME NEW old \in Seq(Nat), NEW text \in Seq(Nat), NEW mode \in UpdateModes
  PROVE  Applied(ApplyMode(old, text, mode), old, text, mode)
<1>1. PICK new : new = ApplyMode(old, text, mode)
  OBVIOUS
<1>2. PICK u, w : u = Kept(old) /\ w = Kept(text)
  OBVIOUS
<1>3. /\ u \in Seq(Nat) /\ w \in Seq(Nat) /\ ToSet(u) = ToSet(old) \ {0} /\ ToSet(w) = ToSet(text) \ {0}
  BY <1>2, KeptIs
<1>4. PICK both : both = u \o w
  OBVIOUS
<1>5. both \in Seq(Nat) /\ ToSet(both) = ToSet(u) \cup ToSet(w)
  BY <1>3, <1>4, ConcatRange
<1>6. CASE mode = "replace"
  <2>1. new = w
    BY <1>1, <1>2, <1>6 DEF ApplyMode
  <2>. QED
    BY <1>1, <1>2, <1>3, <1>6, <2>1 DEF Applied
<1>7. CASE mode = "patch_append"
  <2>1. new = both
    BY <1>1, <1>2, <1>4, <1>7 DEF ApplyMode
  <2>. QED
    BY <1>1, <1>2, <1>3, <1>4, <1>5, <1>7, <2>1 DEF Applied
<1>8. CASE mode = "patch_merge"
  <2>1. new = DedupeMerge(u, w)
    BY <1>1, <1>2, <1>8 DEF ApplyMode
  <2>2. new = Once(both)
    BY <1>3, <1>4, <2>1, MergeIsOnce
  <2>3. new \in Seq(Nat) /\ Distinct(new) /\ ToSet(new) = ToSet(both)
    BY <1>5, <2>2, OnceType
  <2>. QED
    BY <1>1, <1>2, <1>3, <1>4, <1>5, <1>8, <2>2, <2>3 DEF Applied
<1>. QED
  BY <1>6, <1>7, <1>8 DEF UpdateModes

(* The lines of one file along the steps of which those of `on` are on it. *)
Worked(r, on, mode, text, k) ==
  /\ on \subseteq 1..k /\ \A n \in 0..k : r[n] \in Seq(Nat)
  /\ \A n \in on : /\ text[n] \in Seq(Nat) /\ mode[n] \in UpdateModes
                   /\ r[n] = ApplyMode(r[n - 1], text[n], mode[n])
  /\ \A n \in (1..k) \ on : r[n] = r[n - 1]

(* After any step on it the file has no blank line.                        *)
LEMMA NoBlankLine ==
  ASSUME NEW k \in Nat, NEW on, NEW mode, NEW text, NEW r, Worked(r, on, mode, text, k), on # {}
  PROVE  0 \notin ToSet(r[k])
<1>1. PICK Good : Good = {n \in 0..k : (\E m \in on : m <= n) => 0 \notin ToSet(r[n])}
  OBVIOUS
<1>2. on \subseteq 1..k
  BY DEF Worked
<1>3. 0 \in Good
  BY <1>1, <1>2
<1>4. ASSUME NEW n \in 0..(k - 1), n \in Good PROVE n + 1 \in Good
  <2>1. n + 1 \in 1..k /\ (n + 1) - 1 = n /\ n + 1 \in 0..k /\ n \in 0..k
    OBVIOUS
  <2>2. CASE n + 1 \in on
    <3>1. PICK old, new, line, how : old = r[n] /\ new = r[n + 1] /\ line = text[n + 1] /\ how = mode[n + 1]
      OBVIOUS
    <3>2. /\ old \in Seq(Nat) /\ line \in Seq(Nat) /\ how \in UpdateModes /\ new = ApplyMode(old, line, how)
      BY <2>1, <2>2, <3>1 DEF Worked
    <3>3. 0 \notin ToSet(new)
      BY <3>2, ApplyIs DEF Applied
    <3>. QED
      BY <1>1, <2>1, <3>1, <3>3
  <2>3. CASE n + 1 \notin on
    <3>1. r[n + 1] = r[n]
      BY <2>1, <2>3 DEF Worked
    <3>2. \A m \in on : m <= n + 1 => m <= n
      BY <1>2, <2>3
    <3>. QED
      BY <1>1, <1>4, <2>1, <3>1, <3>2
  <2>. QED
    BY <2>2, <2>3
<1>5. 0..k \subseteq Good
  BY <1>3, <1>4, ChainInduction
<1>6. \E m \in on : m <= k
  <2>1. PICK m \in on : TRUE
    OBVIOUS
  <2>2. m \in 1..k
    BY <1>2
  <2>. QED
    BY <2>2
<1>. QED
  BY <1>1, <1>5, <1>6

(* If the last step on it is a merge, no line is there twice.              *)
LEMMA LastMerge ==
  ASSUME NEW k \in Nat, NEW on, NEW mode, NEW text, NEW r, Worked(r, on, mode, text, k),
         NEW last \in on, \A n \in on : n <= last, mode[last] = "patch_merge"
  PROVE  Distinct(r[k])
<1>1. PICK Good : Good = {n \in 0..k : n >= last => Distinct(r[n])}
  OBVIOUS
<1>2. on \subseteq 1..k /\ last \in 1..k
  BY DEF Worked
<1>3. 0 \in Good
  BY <1>1, <1>2
<1>4. ASSUME NEW n \in 0..(k - 1), n \in Good PROVE n + 1 \in Good
  <2>1. n + 1 \in 1..k /\ (n + 1) - 1 = n /\ n + 1 \in 0..k /\ n \in 0..k
    OBVIOUS
  <2>2. CASE n + 1 = last
    <3>1. PICK old, new, line, how : old = r[n] /\ new = r[n + 1] /\ line = text[n + 1] /\ how = mode[n + 1]
      OBVIOUS
    <3>2. /\ old \in Seq(Nat) /\ line \in Seq(Nat) /\ how \in UpdateModes /\ new = ApplyMode(old, line, how)
      BY <2>1, <2>2, <3>1 DEF Worked
    <3>3. how = "patch_merge"
      BY <2>2, <3>1
    <3>4. Distinct(new)
      BY <3>2, <3>3, ApplyIs DEF Applied
    <3>. QED
      BY <1>1, <2>1, <3>1, <3>4
  <2>3. CASE n + 1 > last
    <3>1. n + 1 \notin on
      BY <1>2, <2>3
    <3>2. r[n + 1] = r[n]
      BY <2>1, <3>1 DEF Worked
    <3>3. n >= last
      BY <1>2, <2>3
    <3>. QED
      BY <1>1, <1>4, <2>1, <3>2, <3>3
  <2>4. CASE n + 1 < last
    <3>1. ~(n + 1 >= last)
      BY <1>2, <2>4
    <3>. QED
      BY <1>1, <2>1, <3>1
  <2>. QED
    BY <1>2, <2>2, <2>3, <2>4
<1>5. 0..k \subseteq Good
  BY <1>3, <1>4, ChainInduction
<1>. QED
  BY <1>1, <1>2, <1>5

(* What more lines come to, the ones before being known up to repetition.  *)
LEMMA MoreLines ==
  ASSUME NEW old \in Seq(Nat), NEW all \in Seq(Nat), NEW text \in Seq(Nat), NEW mode \in UpdateModes,
         mode # "replace", NEW new, new = ApplyMode(old, text, mode), Once(Kept(old)) = Once(Kept(all))
  PROVE  Once(Kept(new)) = Once(Kept(all \o text))
<1>1. PICK u, v, w : u = Kept(old) /\ v = Kept(all) /\ w = Kept(text)
  OBVIOUS
<1>2. u \in Seq(Nat) /\ v \in Seq(Nat) /\ w \in Seq(Nat)
  BY <1>1, KeptIs
<1>3. PICK both : both = u \o w
  OBVIOUS
<1>4. both \in Seq(Nat)
  BY <1>2, <1>3, ConcatRange
<1>5. Once(Kept(all \o text)) = Once(both)
  <2>1. Kept(all \o text) = v \o w
    BY <1>1, KeptConcat
  <2>2. Once(v \o w) = Once(Once(v) \o w)
    BY <1>2, OnceOfOnce
  <2>3. Once(u \o w) = Once(Once(u) \o w)
    BY <1>2, OnceOfOnce
  <2>. QED
    BY <1>1, <1>3, <2>1, <2>2, <2>3
<1>6. /\ new \in Seq(Nat) /\ 0 \notin ToSet(new)
      /\ mode = "patch_append" => new = both
      /\ mode = "patch_merge" => new = Once(both) /\ Distinct(new)
  <2>1. /\ new \in Seq(Nat) /\ 0 \notin ToSet(new)
        /\ mode = "patch_append" => new = Kept(old) \o Kept(text)
        /\ mode = "patch_merge" => new = Once(Kept(old) \o Kept(text)) /\ Distinct(new)
    <3>1. Applied(new, old, text, mode)
      BY ApplyIs
    <3>. QED
      BY <3>1 DEF Applied
  <2>. QED
    BY <1>1, <1>3, <2>1
<1>7. Kept(new) = new
  BY <1>6, KeptAgain
<1>8. Once(new) = Once(both)
  <2>1. CASE mode = "patch_append"
    BY <1>6, <2>1
  <2>2. CASE mode = "patch_merge"
    BY <1>6, <2>2, OnceAgain
  <2>. QED
    BY <2>1, <2>2 DEF UpdateModes
<1>. QED
  BY <1>5, <1>7, <1>8

(* The last step on the file that replaces it, 0 if there is none.         *)
LastReplace(since, on, mode) ==
  /\ since \in on \cup {0} /\ (since # 0 => mode[since] = "replace")
  /\ \A n \in on : mode[n] = "replace" => n <= since

(* The file has the lines of the sources since then, in their order.       *)
LEMMA LinesSince ==
  ASSUME NEW k \in Nat, NEW on, NEW mode, NEW text, NEW r, Worked(r, on, mode, text, k),
         NEW since, LastReplace(since, on, mode),
         NEW texts, texts = [n \in 1..k |-> IF n \in on /\ n >= since THEN text[n] ELSE <<>>],
         NEW before, before = IF since = 0 THEN r[0] ELSE <<>>
  PROVE  Once(Kept(r[k])) = Once(Kept(before \o FlattenSeq(texts)))
<1>1. on \subseteq 1..k /\ since \in 0..k /\ before \in Seq(Nat)
  BY DEF Worked, LastReplace
<1>2. texts \in Seq(Seq(Nat)) /\ Len(texts) = k
  <2>1. \A n \in 1..k : texts[n] \in Seq(Nat)
    BY DEF Worked
  <2>2. texts \in [1..k -> Seq(Nat)]
    BY <2>1
  <2>. QED
    BY <2>2
<1>3. PICK g \in [0..k -> Seq(Nat)] : Joins(g, texts, k) /\ g[k] = FlattenSeq(texts)
  BY <1>2, FlattenChain
<1>4. PICK Good : Good = {n \in 0..k : /\ n < since => g[n] = <<>>
                                       /\ n >= since => Once(Kept(r[n])) = Once(Kept(before \o g[n]))}
  OBVIOUS
<1>5. 0 \in Good
  <2>1. g[0] = <<>>
    BY <1>3 DEF Joins
  <2>2. CASE since = 0
    <3>1. before \o <<>> = before
      BY <1>1
    <3>2. before \o g[0] = r[0]
      BY <2>1, <2>2, <3>1
    <3>3. 0 \in 0..k /\ ~(0 < since)
      BY <2>2
    <3>. QED
      BY <1>4, <3>2, <3>3
  <2>3. CASE since # 0
    <3>1. ~(0 >= since)
      BY <1>1, <2>3
    <3>. QED
      BY <1>4, <2>1, <3>1
  <2>. QED
    BY <2>2, <2>3
<1>6. ASSUME NEW n \in 0..(k - 1), n \in Good PROVE n + 1 \in Good
  <2>1. n + 1 \in 1..k /\ (n + 1) - 1 = n /\ n + 1 \in 0..k /\ n \in 0..k
    OBVIOUS
  <2>2. PICK old, new, lines, how, add : /\ old = r[n] /\ new = r[n + 1] /\ lines = text[n + 1] /\ how = mode[n + 1]
                                         /\ add = texts[n + 1]
    OBVIOUS
  <2>3. old \in Seq(Nat) /\ new \in Seq(Nat) /\ add \in Seq(Nat) /\ g[n] \in Seq(Nat)
    <3>1. texts[n + 1] \in Seq(Nat)
      BY <2>1 DEF Worked
    <3>2. g[n] \in Seq(Nat)
      BY <2>1
    <3>. QED
      BY <2>1, <2>2, <3>1, <3>2 DEF Worked
  <2>4. g[n + 1] = g[n] \o add
    BY <1>3, <2>1, <2>2 DEF Joins
  <2>5. add = IF n + 1 \in on /\ n + 1 >= since THEN lines ELSE <<>>
    BY <2>1, <2>2
  <2>6. n + 1 \in on => /\ lines \in Seq(Nat) /\ how \in UpdateModes /\ new = ApplyMode(old, lines, how)
                        /\ how = "replace" => n + 1 <= since
    BY <2>1, <2>2 DEF Worked, LastReplace
  <2>7. n + 1 \notin on => new = old
    BY <2>1, <2>2 DEF Worked
  <2>8. CASE n + 1 < since
    <3>1. add = <<>> /\ g[n] = <<>> /\ ~(n + 1 >= since)
      BY <1>1, <1>4, <1>6, <2>5, <2>8
    <3>2. g[n + 1] = <<>>
      BY <2>4, <3>1
    <3>. QED
      BY <1>4, <2>1, <3>1, <3>2
  <2>9. CASE n + 1 = since
    <3>1. n + 1 \in on /\ how = "replace" /\ before = <<>> /\ add = lines /\ g[n] = <<>>
      <4>1. since # 0 /\ n < since /\ n + 1 >= since
        BY <1>1, <2>9
      <4>2. n + 1 \in on /\ how = "replace"
        BY <2>2, <2>9, <4>1 DEF LastReplace
      <4>. QED
        BY <1>4, <1>6, <2>5, <4>1, <4>2
    <3>2. new = Kept(lines) /\ 0 \notin ToSet(new)
      <4>1. Applied(new, old, lines, how)
        BY <2>3, <2>6, <3>1, ApplyIs
      <4>. QED
        BY <3>1, <4>1 DEF Applied
    <3>3. Kept(new) = new
      BY <2>3, <3>2, KeptAgain
    <3>4. before \o g[n + 1] = lines
      <4>1. g[n + 1] = lines
        BY <2>3, <2>4, <3>1
      <4>2. <<>> \o lines = lines
        BY <2>6, <3>1
      <4>. QED
        BY <3>1, <4>1, <4>2
    <3>5. Once(Kept(r[n + 1])) = Once(Kept(before \o g[n + 1]))
      BY <2>2, <3>2, <3>3, <3>4
    <3>6. ~(n + 1 < since)
      BY <1>1, <2>9
    <3>. QED
      BY <1>4, <2>1, <3>5, <3>6
  <2>10. CASE n >= since
    <3>1. PICK all : all = before \o g[n]
      OBVIOUS
    <3>2. all \in Seq(Nat)
      BY <1>1, <2>3, <3>1, ConcatRange
    <3>3. Once(Kept(old)) = Once(Kept(all))
      BY <1>4, <1>6, <2>2, <2>10, <3>1
    <3>4. before \o g[n + 1] = all \o add
      <4>1. Regroups(before, g[n], add)
        BY <1>1, <2>3, ConcatAssociates
      <4>. QED
        BY <2>4, <3>1, <4>1 DEF Regroups
    <3>5. Once(Kept(new)) = Once(Kept(all \o add))
      <4>1. CASE n + 1 \in on
        <5>1. add = lines /\ how # "replace"
          BY <1>1, <2>5, <2>6, <2>10, <4>1
        <5>2. lines \in Seq(Nat) /\ how \in UpdateModes /\ new = ApplyMode(old, lines, how)
          BY <2>6, <4>1
        <5>. QED
          BY <2>3, <3>2, <3>3, <5>1, <5>2, MoreLines
      <4>2. CASE n + 1 \notin on
        <5>1. all \o <<>> = all
          BY <3>2
        <5>. QED
          BY <2>5, <2>7, <3>3, <4>2, <5>1
      <4>. QED
        BY <4>1, <4>2
    <3>6. ~(n + 1 < since)
      BY <1>1, <2>10
    <3>. QED
      BY <1>4, <2>1, <2>2, <3>4, <3>5, <3>6
  <2>. QED
    BY <1>1, <2>8, <2>9, <2>10
<1>7. 0..k \subseteq Good
  BY <1>5, <1>6, ChainInduction
<1>8. k >= since /\ k \in 0..k
  BY <1>1
<1>. QED
  BY <1>3, <1>4, <1>7, <1>8

-----------------------------------------------------------------------------
(* Merges only: what has been merged is there, once.                       *)
MergedUpTo(n, lines, on, text) ==
  (\E m \in on : m <= n) =>
    /\ Distinct(lines) /\ 0 \notin ToSet(lines)
    /\ \A m \in on : m <= n => ToSet(Kept(text[m])) \subseteq ToSet(lines)

(* It is so after the last step.                                           *)
LEMMA MergesGather ==
  ASSUME NEW k \in Nat, NEW on, NEW mode, NEW text, NEW r, Worked(r, on, mode, text, k),
         \A n \in on : mode[n] = "patch_merge"
  PROVE  MergedUpTo(k, r[k], on, text)
<1>1. PICK Good : Good = {n \in 0..k : MergedUpTo(n, r[n], on, text)}
  OBVIOUS
<1>2. on \subseteq 1..k
  BY DEF Worked
<1>3. 0 \in Good
  BY <1>1, <1>2 DEF MergedUpTo
<1>4. ASSUME NEW n \in 0..(k - 1), n \in Good PROVE n + 1 \in Good
  <2>1. n + 1 \in 1..k /\ (n + 1) - 1 = n /\ n + 1 \in 0..k /\ n \in 0..k
    OBVIOUS
  <2>2. PICK old, new, lines : old = r[n] /\ new = r[n + 1] /\ lines = text[n + 1]
    OBVIOUS
  <2>3. MergedUpTo(n, old, on, text)
    BY <1>1, <1>4, <2>2
  <2>4. \A m \in on : m <= n + 1 => m <= n \/ m = n + 1
    BY <1>2
  <2>5. CASE n + 1 \in on
    <3>1. old \in Seq(Nat) /\ lines \in Seq(Nat) /\ mode[n + 1] \in UpdateModes /\ mode[n + 1] = "patch_merge"
      BY <2>1, <2>2, <2>5 DEF Worked
    <3>2. new = ApplyMode(old, lines, mode[n + 1])
      BY <2>1, <2>2, <2>5 DEF Worked
    <3>3. Applied(new, old, lines, mode[n + 1])
      BY <3>1, <3>2, ApplyIs
    <3>4. /\ Distinct(new) /\ 0 \notin ToSet(new) /\ ToSet(Kept(lines)) \subseteq ToSet(new)
          /\ ToSet(old) \ {0} \subseteq ToSet(new)
      BY <3>1, <3>3 DEF Applied
    <3>5. ASSUME NEW m \in on, m <= n + 1 PROVE ToSet(Kept(text[m])) \subseteq ToSet(new)
      <4>1. CASE m = n + 1
        BY <2>2, <3>4, <4>1
      <4>2. CASE m <= n
        <5>1. ToSet(Kept(text[m])) \subseteq ToSet(old) /\ 0 \notin ToSet(old)
          BY <2>3, <4>2 DEF MergedUpTo
        <5>. QED
          BY <3>4, <5>1
      <4>. QED
        BY <2>4, <3>5, <4>1, <4>2
    <3>6. MergedUpTo(n + 1, new, on, text)
      BY <3>4, <3>5 DEF MergedUpTo
    <3>. QED
      BY <1>1, <2>1, <2>2, <3>6
  <2>6. CASE n + 1 \notin on
    <3>1. new = old
      BY <2>1, <2>2, <2>6 DEF Worked
    <3>2. \A m \in on : m <= n + 1 => m <= n
      BY <2>4, <2>6
    <3>3. \A m \in on : m <= n => m <= n + 1
      BY <1>2
    <3>4. MergedUpTo(n + 1, new, on, text)
      BY <2>3, <3>1, <3>2, <3>3 DEF MergedUpTo
    <3>. QED
      BY <1>1, <2>1, <2>2, <3>4
  <2>. QED
    BY <2>5, <2>6
<1>5. 0..k \subseteq Good
  BY <1>3, <1>4, ChainInduction
<1>. QED
  BY <1>1, <1>5

(* Without an append, going through the steps again changes nothing.       *)
LEMMA Resettles ==
  ASSUME NEW k \in Nat, NEW on, NEW mode, NEW text, NEW r, Worked(r, on, mode, text, k),
         NEW q, Worked(q, on, mode, text, k), q[0] = r[k],
         NEW since, LastReplace(since, on, mode), \A n \in on : mode[n] # "patch_append"
  PROVE  q[k] = r[k]
<1>1. on \subseteq 1..k /\ since \in 0..k /\ k \in 0..k
  BY DEF Worked, LastReplace
<1>2. CASE since # 0
  <2>1. PICK Good : Good = {n \in 0..k : n >= since => q[n] = r[n]}
    OBVIOUS
  <2>2. 0 \in Good
    BY <1>1, <1>2, <2>1
  <2>3. ASSUME NEW n \in 0..(k - 1), n \in Good PROVE n + 1 \in Good
    <3>1. n + 1 \in 1..k /\ (n + 1) - 1 = n /\ n + 1 \in 0..k /\ n \in 0..k
      OBVIOUS
    <3>2. CASE n >= since
      <4>1. q[n] = r[n]
        BY <2>1, <2>3, <3>2
      <4>2. CASE n + 1 \in on
        <5>1. /\ q[n + 1] = ApplyMode(q[n], text[n + 1], mode[n + 1])
              /\ r[n + 1] = ApplyMode(r[n], text[n + 1], mode[n + 1])
          BY <3>1, <4>2 DEF Worked
        <5>. QED
          BY <2>1, <3>1, <4>1, <5>1
      <4>3. CASE n + 1 \notin on
        BY <2>1, <3>1, <4>1, <4>3 DEF Worked
      <4>. QED
        BY <4>2, <4>3
    <3>3. CASE n + 1 = since
      <4>1. since \in on /\ mode[since] = "replace"
        BY <1>2 DEF LastReplace
      <4>2. PICK lines : lines = text[since]
        OBVIOUS
      <4>3. /\ q[n + 1] = ApplyMode(q[n], lines, mode[since]) /\ r[n + 1] = ApplyMode(r[n], lines, mode[since])
        BY <3>1, <3>3, <4>1, <4>2 DEF Worked
      <4>4. q[n + 1] = Kept(lines) /\ r[n + 1] = Kept(lines)
        BY <4>1, <4>3 DEF ApplyMode
      <4>. QED
        BY <2>1, <3>1, <4>4
    <3>4. CASE n + 1 < since
      <4>1. ~(n + 1 >= since)
        BY <1>1, <3>4
      <4>. QED
        BY <2>1, <3>1, <4>1
    <3>. QED
      BY <1>1, <3>2, <3>3, <3>4
  <2>4. 0..k \subseteq Good
    BY <2>2, <2>3, ChainInduction
  <2>. QED
    BY <1>1, <2>1, <2>4
<1>3. CASE since = 0
  <2>1. PICK last : last = r[k]
    OBVIOUS
  <2>2. \A n \in on : mode[n] = "patch_merge"
    <3>1. ASSUME NEW n \in on PROVE mode[n] = "patch_merge"
      <4>1. n \in 1..k /\ mode[n] \in UpdateModes /\ mode[n] # "patch_append"
        BY <1>1 DEF Worked
      <4>2. mode[n] # "replace"
        BY <1>3, <4>1 DEF LastReplace
      <4>. QED
        BY <4>1, <4>2 DEF UpdateModes
    <3>. QED
      BY <3>1
  <2>3. MergedUpTo(k, last, on, text) /\ last \in Seq(Nat)
    <3>1. last \in Seq(Nat)
      BY <1>1, <2>1 DEF Worked
    <3>. QED
      BY <2>1, <2>2, <3>1, MergesGather
  <2>4. PICK Good : Good = {n \in 0..k : q[n] = last}
    OBVIOUS
  <2>5. 0 \in Good
    BY <2>1, <2>4
  <2>6. ASSUME NEW n \in 0..(k - 1), n \in Good PROVE n + 1 \in Good
    <3>1. n + 1 \in 1..k /\ (n + 1) - 1 = n /\ n + 1 \in 0..k /\ n \in 0..k
      OBVIOUS
    <3>2. q[n] = last
      BY <2>4, <2>6
    <3>3. CASE n + 1 \in on
      <4>1. PICK lines : lines = text[n + 1]
        OBVIOUS
      <4>2. lines \in Seq(Nat) /\ q[n + 1] = ApplyMode(last, lines, mode[n + 1]) /\ mode[n + 1] \in UpdateModes
        BY <3>1, <3>2, <3>3, <4>1 DEF Worked
      <4>3. Applied(q[n + 1], last, lines, mode[n + 1])
        BY <2>3, <4>2, ApplyIs
      <4>4. q[n + 1] = Once(Kept(last) \o Kept(lines))
        BY <2>2, <3>3, <4>3 DEF Applied
      <4>5. Distinct(last) /\ 0 \notin ToSet(last) /\ ToSet(Kept(lines)) \subseteq ToSet(last)
        <5>1. n + 1 <= k
          OBVIOUS
        <5>. QED
          BY <2>3, <3>3, <4>1, <5>1 DEF MergedUpTo
      <4>6. Kept(last) = last /\ Kept(lines) \in Seq(Nat)
        BY <2>3, <4>2, <4>5, KeptAgain, KeptIs
      <4>7. Once(last \o Kept(lines)) = last
        BY <2>3, <4>5, <4>6, OnceHas
      <4>. QED
        BY <2>4, <3>1, <4>4, <4>6, <4>7
    <3>4. CASE n + 1 \notin on
      BY <2>4, <3>1, <3>2, <3>4 DEF Worked
    <3>. QED
      BY <3>3, <3>4
  <2>7. 0..k \subseteq Good
    BY <2>5, <2>6, ChainInduction
  <2>. QED
    BY <1>1, <2>1, <2>4, <2>7
<1>. QED
  BY <1>2, <1>3

-----------------------------------------------------------------------------
(* Files of some of the paths, with a list of lines each; the files after  *)
(* each of the steps.                                                      *)
Filesets(P) == UNION {[D -> Seq(Nat)] : D \in SUBSET P}

Workable(steps, sources, k, P) ==
  \A n \in 1..k : /\ steps[n].path \in P /\ steps[n].mode \in UpdateModes
                  /\ sources[steps[n].source] \in Seq(Nat)

Patching(c, sources, steps, k) == \A n \in 1..k : c[n] = PatchFile(c[n - 1], sources, steps[n])

PatchesTo(sources, steps, k, P, before, after) ==
  \E c \in [0..k -> Filesets(P)] : c[0] = before /\ c[k] = after /\ Patching(c, sources, steps, k)

(* A step writes the file it is about, and leaves the others as they are.  *)
Writes(after, files, step, text, P) ==
  /\ after \in Filesets(P) /\ DOMAIN after = DOMAIN files \cup {step.path}
  /\ ReadLines(after, step.path) = ApplyMode(ReadLines(files, step.path), text, step.mode)
  /\ \A path : path # step.path => ReadLines(after, path) = ReadLines(files, path)

(* That is what patch_configset does with each of the target files.        *)
LEMMA PatchFileIs ==
  ASSUME NEW P, NEW files \in Filesets(P), NEW sources, NEW step, step.path \in P, step.mode \in UpdateModes,
         NEW text \in Seq(Nat), text = sources[step.source]
  PROVE  Writes(PatchFile(files, sources, step), files, step, text, P)
<1>1. PICK D \in SUBSET P : files \in [D -> Seq(Nat)]
  BY DEF Filesets
<1>2. PICK old : old = ReadLines(files, step.path) /\ old \in Seq(Nat)
  <2>1. <<>> \in Seq(Nat) /\ \A path \in D : files[path] \in Seq(Nat) /\ DOMAIN files = D
    BY <1>1
  <2>2. ReadLines(files, step.path) \in Seq(Nat)
    BY <1>1, <2>1 DEF ReadLines
  <2>. QED
    BY <2>2
<1>3. PICK new : new = ApplyMode(old, text, step.mode) /\ new \in Seq(Nat)
  <2>1. Applied(ApplyMode(old, text, step.mode), old, text, step.mode)
    BY <1>2, ApplyIs
  <2>. QED
    BY <2>1 DEF Applied
<1>. DEFINE after == PatchFile(files, sources, step)
<1>4. after = [p \in DOMAIN files \cup {step.path} |-> IF p = step.path THEN new ELSE files[p]]
  BY <1>2, <1>3 DEF PatchFile, WriteLines
<1>5. PICK E \in SUBSET P : E = D \cup {step.path}
  OBVIOUS
<1>6. after \in [E -> Seq(Nat)]
  BY <1>1, <1>3, <1>4, <1>5
<1>7. after \in Filesets(P)
  <2>. HIDE DEF after
  <2>. QED
    BY <1>6 DEF Filesets
<1>8. /\ ReadLines(after, step.path) = new
      /\ \A path : path # step.path => ReadLines(after, path) = ReadLines(files, path)
  <2>. HIDE DEF after
  <2>. QED
    BY <1>1, <1>4, <1>5, <1>6 DEF ReadLines
<1>9. DOMAIN after = DOMAIN files \cup {step.path}
  BY <1>4
<1>. QED
  BY <1>2, <1>3, <1>7, <1>8, <1>9 DEF Writes

(* A fold of the steps goes along such files.                              *)
AllPatched(sources, steps, before) ==
  FoldLeft(LAMBDA f, step : PatchFile(f, sources, step), before, steps)

(* It ends where they end.                                                 *)
LEMMA PatchAll ==
  ASSUME NEW P, NEW F, F = Filesets(P), NEW before \in F, NEW sources, NEW R, NEW steps \in Seq(R),
         NEW k \in Nat, k = Len(steps), Workable(steps, sources, k, P),
         NEW all, all = AllPatched(sources, steps, before)
  PROVE  PatchesTo(sources, steps, k, P, before, all)
<1>1. DOMAIN steps = 1..k
  OBVIOUS
<1>2. PICK step : step = [p \in (1..k) \X F |-> PatchFile(p[2], sources, steps[p[1]])]
  OBVIOUS
<1>3. step \in [(1..k) \X F -> F] /\ before \in F
  <2>1. ASSUME NEW n \in 1..k, NEW old \in F PROVE PatchFile(old, sources, steps[n]) \in F
    <3>1. PICK text \in Seq(Nat) : text = sources[steps[n].source]
      BY DEF Workable
    <3>2. Writes(PatchFile(old, sources, steps[n]), old, steps[n], text, P)
      BY <3>1, PatchFileIs DEF Workable
    <3>. QED
      BY <3>2 DEF Writes
  <2>. QED
    BY <1>2, <2>1
<1>4. PICK f \in [SUBSET (1..k) -> F] : Folds(f, before, step, k)
  BY <1>1, <1>3, FoldExists
<1>5. \A s \in SUBSET (1..k) : s # {} => Max(s) \in 1..k /\ s \ {Max(s)} \in SUBSET (1..k)
  BY GreatestNumber
<1>. DEFINE Is(it) == it = [s \in SUBSET (1..k) |->
                           IF s = {} THEN before ELSE PatchFile(it[s \ {Max(s)}], sources, steps[Max(s)])]
<1>6. all = (CHOOSE it : Is(it))[1..k]
  BY <1>1 DEF AllPatched, FoldLeft, MapThenFoldSet
<1>7. Is(f)
  <2>1. f = [s \in SUBSET (1..k) |-> f[s]]
    OBVIOUS
  <2>2. ASSUME NEW s \in SUBSET (1..k)
        PROVE  f[s] = IF s = {} THEN before ELSE PatchFile(f[s \ {Max(s)}], sources, steps[Max(s)])
    <3>1. CASE s = {}
      BY <1>4, <3>1 DEF Folds
    <3>2. CASE s # {}
      <4>1. f[s] = step[<<Max(s), f[s \ {Max(s)}]>>]
        BY <1>4, <3>2 DEF Folds
      <4>2. Max(s) \in 1..k /\ f[s \ {Max(s)}] \in F
        BY <1>4, <1>5, <3>2
      <4>. QED
        BY <1>2, <3>2, <4>1, <4>2
    <3>. QED
      BY <3>1, <3>2
  <2>. QED
    BY <2>1, <2>2
<1>8. PICK it : it = (CHOOSE any : Is(any))
  OBVIOUS
<1>9. Is(it)
  <2>. HIDE DEF Is
  <2>. QED
    BY <1>7, <1>8, Zenon
<1>10. \A s \in SUBSET (1..k) : it[s] = IF s = {} THEN before ELSE PatchFile(it[s \ {Max(s)}], sources, steps[Max(s)])
  BY <1>9, Zenon
<1>11. Unfolds(it, before, step, k, F)
  <2>1. it[{}] = before
    <3>1. {} \in SUBSET (1..k)
      OBVIOUS
    <3>. QED
      BY <1>10, <3>1, Zenon
  <2>2. ASSUME NEW s \in SUBSET (1..k), s # {}, it[s \ {Max(s)}] \in F
        PROVE  it[s] = step[<<Max(s), it[s \ {Max(s)}]>>]
    <3>1. PICK m \in 1..k : m = Max(s)
      BY <1>5, <2>2
    <3>2. PICK old \in F : old = it[s \ {Max(s)}]
      BY <2>2
    <3>3. it[s] = PatchFile(old, sources, steps[m])
      BY <1>10, <2>2, <3>1, <3>2, Zenon
    <3>4. step[<<m, old>>] = PatchFile(old, sources, steps[m])
      BY <1>2
    <3>. QED
      BY <3>1, <3>2, <3>3, <3>4
  <2>. QED
    BY <2>1, <2>2 DEF Unfolds
<1>12. PICK c \in [0..k -> F] : c[k] = it[1..k] /\ Chain(c, before, step, k)
  BY <1>1, <1>3, <1>11, FoldChain
<1>13. ASSUME NEW n \in 1..k PROVE c[n] = PatchFile(c[n - 1], sources, steps[n])
  <2>1. PICK old \in F : old = c[n - 1]
    <3>1. n - 1 \in 0..k
      OBVIOUS
    <3>2. c[n - 1] \in F
      BY <3>1
    <3>. QED
      BY <3>2
  <2>2. step[<<n, old>>] = PatchFile(old, sources, steps[n])
    BY <1>2
  <2>. QED
    BY <1>12, <2>1, <2>2 DEF Chain
<1>14. c[k] = all /\ c[0] = before
  BY <1>6, <1>8, <1>12 DEF Chain
<1>15. Patching(c, sources, steps, k)
  BY <1>13 DEF Patching
<1>16. c \in [0..k -> Filesets(P)]
  BY <1>12
<1>. QED
  BY <1>14, <1>15, <1>16 DEF PatchesTo

(* Patching is the same from the same files.                               *)
LEMMA PatchesAgree ==
  ASSUME NEW k \in Nat, NEW sources, NEW steps, NEW c, NEW d, Patching(c, sources, steps, k),
         Patching(d, sources, steps, k), c[0] = d[0]
  PROVE  \A n \in 0..k : c[n] = d[n]
<1>1. PICK Good : Good = {n \in 0..k : c[n] = d[n]}
  OBVIOUS
<1>2. 0 \in Good
  BY <1>1
<1>3. ASSUME NEW n \in 0..(k - 1), n \in Good PROVE n + 1 \in Good
  <2>1. n + 1 \in 1..k /\ (n + 1) - 1 = n /\ n + 1 \in 0..k /\ n \in 0..k
    OBVIOUS
  <2>2. c[n] = d[n]
    BY <1>1, <1>3
  <2>. QED
    BY <1>1, <2>1, <2>2 DEF Patching
<1>4. 0..k \subseteq Good
  BY <1>2, <1>3, ChainInduction
<1>. QED
  BY <1>1, <1>4

-----------------------------------------------------------------------------
(* The steps that are on a path, what they do and with which lines, and    *)
(* the lines of its file after each step.                                  *)
StepsOn(steps, k, path) == {n \in 1..k : steps[n].path = path}
Modes(steps, k) == [n \in 1..k |-> steps[n].mode]
Texts(sources, steps, k) == [n \in 1..k |-> sources[steps[n].source]]
LinesAt(c, k, path) == [n \in 0..k |-> ReadLines(c[n], path)]

(* Those lines are worked by these steps; a file stays, and one that no    *)
(* step is on neither changes nor comes.                                   *)
LEMMA PathWorked ==
  ASSUME NEW k \in Nat, NEW P, NEW sources, NEW steps, NEW c \in [0..k -> Filesets(P)],
         Workable(steps, sources, k, P), Patching(c, sources, steps, k), NEW path,
         NEW on, on = StepsOn(steps, k, path), NEW mode, mode = Modes(steps, k),
         NEW text, text = Texts(sources, steps, k), NEW r, r = LinesAt(c, k, path)
  PROVE  /\ Worked(r, on, mode, text, k)
         /\ on = {} => r[k] = r[0] /\ (path \in DOMAIN c[k] => path \in DOMAIN c[0])
         /\ path \in DOMAIN c[0] => path \in DOMAIN c[k]
<1>. USE DEF StepsOn, Modes, Texts, LinesAt
<1>1. ASSUME NEW n \in 0..k PROVE r[n] \in Seq(Nat)
  <2>1. PICK D \in SUBSET P : c[n] \in [D -> Seq(Nat)]
    BY DEF Filesets
  <2>2. <<>> \in Seq(Nat) /\ \A p \in D : c[n][p] \in Seq(Nat) /\ DOMAIN c[n] = D
    BY <2>1
  <2>. QED
    BY <2>1, <2>2 DEF ReadLines
<1>2. ASSUME NEW n \in 1..k
      PROVE  /\ n \in on => text[n] \in Seq(Nat) /\ mode[n] \in UpdateModes
                            /\ r[n] = ApplyMode(r[n - 1], text[n], mode[n])
             /\ n \notin on => r[n] = r[n - 1] /\ (path \in DOMAIN c[n] => path \in DOMAIN c[n - 1])
             /\ path \in DOMAIN c[n - 1] => path \in DOMAIN c[n]
  <2>1. PICK old, new, step : old = c[n - 1] /\ new = c[n] /\ step = steps[n]
    OBVIOUS
  <2>2. n - 1 \in 0..k /\ n \in 0..k
    OBVIOUS
  <2>3. old \in Filesets(P) /\ new = PatchFile(old, sources, step)
    BY <2>1, <2>2 DEF Patching
  <2>4. /\ step.path \in P /\ step.mode \in UpdateModes /\ sources[step.source] \in Seq(Nat)
        /\ (n \in on <=> step.path = path) /\ mode[n] = step.mode /\ text[n] = sources[step.source]
    BY <2>1 DEF Workable
  <2>5. r[n] = ReadLines(new, path) /\ r[n - 1] = ReadLines(old, path)
    BY <2>1, <2>2
  <2>6. PICK line \in Seq(Nat) : line = text[n] /\ line = sources[step.source]
    BY <2>4
  <2>7. /\ DOMAIN new = DOMAIN old \cup {step.path}
        /\ ReadLines(new, step.path) = ApplyMode(ReadLines(old, step.path), line, step.mode)
        /\ \A p : p # step.path => ReadLines(new, p) = ReadLines(old, p)
    <3>1. Writes(new, old, step, line, P)
      BY ONLY <2>3, <2>4, <2>6, PatchFileIs
    <3>. QED
      BY <3>1 DEF Writes
  <2>8. n \in on => r[n] = ApplyMode(r[n - 1], text[n], mode[n])
    BY <2>4, <2>5, <2>6, <2>7
  <2>9. n \in on => text[n] \in Seq(Nat) /\ mode[n] \in UpdateModes
    BY ONLY <2>4, <2>6
  <2>10. /\ n \notin on => r[n] = r[n - 1] /\ (path \in DOMAIN new => path \in DOMAIN old)
         /\ path \in DOMAIN old => path \in DOMAIN new
    BY ONLY <2>4, <2>5, <2>7
  <2>. QED
    BY <2>1, <2>8, <2>9, <2>10
<1>3. Worked(r, on, mode, text, k)
  BY <1>1, <1>2 DEF Worked
<1>4. ASSUME on = {} PROVE r[k] = r[0] /\ (path \in DOMAIN c[k] => path \in DOMAIN c[0])
  <2>1. PICK Good : Good = {n \in 0..k : r[n] = r[0] /\ (path \in DOMAIN c[n] => path \in DOMAIN c[0])}
    OBVIOUS
  <2>2. 0 \in Good
    BY <2>1
  <2>3. ASSUME NEW n \in 0..(k - 1), n \in Good PROVE n + 1 \in Good
    <3>1. n + 1 \in 1..k /\ (n + 1) - 1 = n /\ n + 1 \in 0..k /\ n \in 0..k
      OBVIOUS
    <3>2. r[n + 1] = r[n] /\ (path \in DOMAIN c[n + 1] => path \in DOMAIN c[n])
      BY <1>2, <1>4, <3>1
    <3>. QED
      BY <2>1, <2>3, <3>1, <3>2
  <2>4. 0..k \subseteq Good
    BY <2>2, <2>3, ChainInduction
  <2>5. k \in 0..k
    OBVIOUS
  <2>. QED
    BY <2>1, <2>4, <2>5
<1>5. ASSUME path \in DOMAIN c[0] PROVE path \in DOMAIN c[k]
  <2>1. PICK Good : Good = {n \in 0..k : path \in DOMAIN c[n]}
    OBVIOUS
  <2>2. 0 \in Good
    BY <1>5, <2>1
  <2>3. ASSUME NEW n \in 0..(k - 1), n \in Good PROVE n + 1 \in Good
    <3>1. n + 1 \in 1..k /\ (n + 1) - 1 = n /\ n + 1 \in 0..k
      OBVIOUS
    <3>. QED
      BY <1>2, <2>1, <2>3, <3>1
  <2>4. 0..k \subseteq Good
    BY <2>2, <2>3, ChainInduction
  <2>5. k \in 0..k
    OBVIOUS
  <2>. QED
    BY <2>1, <2>4, <2>5
<1>. QED
  BY <1>3, <1>4, <1>5

(* The last of some numbers, 0 if there is none.                           *)
LEMMA LastOrNone ==
  ASSUME NEW k \in Nat, NEW Q, Q \subseteq 1..k
  PROVE  Max(Q \cup {0}) \in Q \cup {0} /\ \A n \in Q : n <= Max(Q \cup {0})
<1>1. PICK R : R = Q \cup {0}
  OBVIOUS
<1>2. \E m \in R : \A n \in R : m >= n
  <2>1. CASE Q = {}
    BY <1>1, <2>1
  <2>2. CASE Q # {}
    <3>1. Max(Q) \in Q /\ \A n \in Q : Max(Q) >= n
      BY <2>2, GreatestNumber
    <3>2. PICK m : m = Max(Q) /\ m \in 1..k
      BY <3>1
    <3>. QED
      BY <1>1, <3>1, <3>2
  <2>. QED
    BY <2>1, <2>2
<1>3. Max(R) \in R /\ \A n \in R : Max(R) >= n
  BY <1>2, Zenon DEF Max
<1>4. PICK m : m = Max(R) /\ m \in R
  BY <1>3
<1>5. m \in 0..k
  BY <1>1, <1>4
<1>6. \A n \in Q : n \in 1..k /\ m >= n
  BY <1>1, <1>3, <1>4
<1>. QED
  BY <1>1, <1>4, <1>5, <1>6

(* What is said of the lines of a file that was patched: they are those of *)
(* the sources since the last one that replaced them, each once after a    *)
(* merge, and the same again if there was no append.                       *)
Settled(lines, was, again, on, mode, text, k) ==
  LET since == Max({n \in on : mode[n] = "replace"} \cup {0})
      before == IF since = 0 THEN was ELSE <<>>
      texts == [n \in 1..k |-> IF n \in on /\ n >= since THEN text[n] ELSE <<>>]
  IN  /\ on # {} =>
           /\ Once(lines) = Once(Kept(before \o FlattenSeq(texts)))
           /\ mode[Max(on)] = "patch_merge" => IsInjective(lines)
      /\ (\A n \in on : mode[n] # "patch_append") => again = lines

(* That is so of the lines of every file along the steps.                  *)
LEMMA LinesSettle ==
  ASSUME NEW k \in Nat, NEW on, NEW mode, NEW text, NEW r, NEW q, Worked(r, on, mode, text, k),
         Worked(q, on, mode, text, k), q[0] = r[k]
  PROVE  Settled(r[k], r[0], q[k], on, mode, text, k)
<1>1. on \subseteq 1..k /\ r[k] \in Seq(Nat)
  BY DEF Worked
<1>2. PICK Q : Q = {n \in on : mode[n] = "replace"} /\ Q \subseteq 1..k
  BY <1>1
<1>3. PICK since : since = Max(Q \cup {0}) /\ since \in Q \cup {0} /\ \A n \in Q : n <= since
  BY <1>2, LastOrNone
<1>4. LastReplace(since, on, mode)
  BY <1>2, <1>3 DEF LastReplace
<1>5. PICK before, texts : /\ before = IF since = 0 THEN r[0] ELSE <<>>
                           /\ texts = [n \in 1..k |-> IF n \in on /\ n >= since THEN text[n] ELSE <<>>]
  OBVIOUS
<1>6. ASSUME on # {} PROVE Once(r[k]) = Once(Kept(before \o FlattenSeq(texts)))
  <2>1. 0 \notin ToSet(r[k])
    BY <1>6, NoBlankLine
  <2>2. Kept(r[k]) = r[k]
    BY <1>1, <2>1, KeptAgain
  <2>3. Once(Kept(r[k])) = Once(Kept(before \o FlattenSeq(texts)))
    BY <1>4, <1>5, LinesSince
  <2>. QED
    BY <2>2, <2>3
<1>7. ASSUME on # {}, mode[Max(on)] = "patch_merge" PROVE IsInjective(r[k])
  <2>1. PICK last \in on : last = Max(on) /\ \A n \in on : n <= last
    <3>1. Max(on) \in on /\ \A n \in on : Max(on) >= n
      BY <1>1, <1>7, GreatestNumber
    <3>2. PICK m : m = Max(on) /\ m \in 1..k
      BY <1>1, <3>1
    <3>. QED
      BY <1>1, <3>1, <3>2
  <2>2. Distinct(r[k])
    BY <1>7, <2>1, LastMerge
  <2>3. DOMAIN r[k] = 1..Len(r[k])
    BY <1>1
  <2>. QED
    BY <2>2, <2>3 DEF Distinct, IsInjective
<1>8. ASSUME \A n \in on : mode[n] # "patch_append" PROVE q[k] = r[k]
  BY <1>4, <1>8, Resettles
<1>9. Settled(r[k], r[0], q[k], on, mode, text, k)
  <2>1. {n \in on : mode[n] = "replace"} \cup {0} = Q \cup {0}
    BY <1>2
  <2>. QED
    BY <1>3, <1>5, <1>6, <1>7, <1>8, <2>1, Zenon DEF Settled
<1>. QED
  BY <1>9

-----------------------------------------------------------------------------
(* Every file that the baseline's configset has or that a step is on.      *)
Paths == DOMAIN settings.files \cup {Steps[n].path : n \in 1..Len(Steps)}

(* A step that does not raise can be gone through.                         *)
LEMMA StepWorks ==
  ASSUME Given, NEW n \in 1..Len(Steps), ~PatchRaises(settings.sources, Steps[n])
  PROVE  /\ Steps[n].path \in Paths /\ Steps[n].mode \in UpdateModes
         /\ settings.sources[Steps[n].source] \in Seq(Nat)
<1>1. Steps[n].mode \in UpdateModes /\ Steps[n].source \in DOMAIN settings.sources
  BY DEF PatchRaises
<1>2. \A source \in DOMAIN settings.sources : settings.sources[source] \in Seq(Nat)
  BY WellFormedSettings DEF WellFormed
<1>. QED
  BY <1>1, <1>2 DEF Paths

(* So can the first steps.                                                 *)
CanWork(n) == Workable(Steps, settings.sources, n, Paths)

(* The files of the baseline's configset are such files.                   *)
LEMMA FilesAreFileset ==
  ASSUME Given
  PROVE  settings.files \in Filesets(Paths)
<1>1. settings.files \in [DOMAIN settings.files -> Seq(Nat)]
  BY WellFormedSettings DEF WellFormed
<1>2. DOMAIN settings.files \in SUBSET Paths
  BY DEF Paths
<1>. QED
  BY <1>1, <1>2 DEF Filesets

(* Patching files all the way.                                             *)
LEMMA RepatchedAll ==
  ASSUME NEW before
  PROVE  Repatched(before) = AllPatched(settings.sources, Steps, before)
BY DEF Repatched, AllPatched

(* It goes along the steps.                                                *)
LEMMA AllPatchedIs ==
  ASSUME Given, CanWork(Len(Steps)), NEW before \in Filesets(Paths)
  PROVE  PatchesTo(settings.sources, Steps, Len(Steps), Paths, before, AllPatched(settings.sources, Steps, before))
<1>1. PICK k \in Nat : k = Len(Steps)
  BY StepsAreList
<1>2. PICK R : Steps \in Seq(R)
  BY StepsAreList DEF IsList
<1>3. PICK P, F : P = Paths /\ F = Filesets(P)
  OBVIOUS
<1>4. Workable(Steps, settings.sources, k, P)
  BY <1>1, <1>3 DEF CanWork
<1>5. PICK steps, sources : steps = Steps /\ sources = settings.sources
  OBVIOUS
<1>6. PatchesTo(sources, steps, k, P, before, AllPatched(sources, steps, before))
  BY <1>1, <1>2, <1>3, <1>4, <1>5, PatchAll
<1>. QED
  BY <1>1, <1>3, <1>5, <1>6

(* One step more.                                                          *)
LEMMA PatchOn ==
  ASSUME NEW n \in Nat, NEW k \in Nat, n < k, NEW P, NEW sources, NEW steps, Workable(steps, sources, k, P),
         NEW before, NEW now, PatchesTo(sources, steps, n, P, before, now),
         NEW new, new = PatchFile(now, sources, steps[n + 1])
  PROVE  PatchesTo(sources, steps, n + 1, P, before, new)
<1>1. PICK c \in [0..n -> Filesets(P)] : c[0] = before /\ c[n] = now /\ Patching(c, sources, steps, n)
  BY DEF PatchesTo
<1>2. new \in Filesets(P)
  <2>1. n + 1 \in 1..k /\ n \in 0..n
    OBVIOUS
  <2>2. PICK text, step : text = sources[step.source] /\ step = steps[n + 1]
    OBVIOUS
  <2>3. step.path \in P /\ step.mode \in UpdateModes /\ text \in Seq(Nat) /\ now \in Filesets(P)
    BY <1>1, <2>1, <2>2 DEF Workable
  <2>4. Writes(new, now, step, text, P)
    BY <2>2, <2>3, PatchFileIs
  <2>. QED
    BY <2>4 DEF Writes
<1>3. PICK d : d = [m \in 0..(n + 1) |-> IF m <= n THEN c[m] ELSE new]
  OBVIOUS
<1>4. d \in [0..(n + 1) -> Filesets(P)]
  <2>1. \A m \in 0..(n + 1) : m <= n => c[m] \in Filesets(P)
    OBVIOUS
  <2>. QED
    BY <1>2, <1>3, <2>1
<1>5. d[0] = before /\ d[n + 1] = new
  BY <1>1, <1>3
<1>6. ASSUME NEW m \in 1..(n + 1) PROVE d[m] = PatchFile(d[m - 1], sources, steps[m])
  <2>1. m \in 0..(n + 1) /\ m - 1 \in 0..(n + 1) /\ m - 1 <= n
    OBVIOUS
  <2>2. d[m - 1] = c[m - 1]
    BY <1>3, <2>1
  <2>3. CASE m <= n
    <3>1. m \in 1..n /\ d[m] = c[m]
      BY <1>3, <2>1, <2>3
    <3>. QED
      BY <1>1, <2>2, <3>1 DEF Patching
  <2>4. CASE m = n + 1
    <3>1. d[m - 1] = now
      BY <1>1, <2>2, <2>4
    <3>. QED
      BY <1>5, <2>4, <3>1
  <2>. QED
    BY <2>3, <2>4
<1>7. Patching(d, sources, steps, n + 1)
  BY <1>6 DEF Patching
<1>. QED
  BY <1>4, <1>5, <1>7 DEF PatchesTo

-----------------------------------------------------------------------------
(* The inductive invariant of the patch: up to the last step the workspace *)
(* is what the steps so far have made of the files and nothing is uploaded *)
(* or created; from then on the shadow gets all of the patch or, with the  *)
(* fallback, nothing of it.                                                *)
PatchInv ==
  /\ patched <= Len(Steps) =>
       /\ configset = settings.files /\ shadow = <<>> /\ calls = <<>> /\ CanWork(patched)
       /\ PatchesTo(settings.sources, Steps, patched, Paths, settings.files, workspace)
  /\ patched > Len(Steps) =>
       \/ CanWork(Len(Steps)) /\ configset = AllPatched(settings.sources, Steps, settings.files)
       \/ configset = settings.files /\ settings.allow_shared_configset_fallback

(* It holds at the start: no step has been taken.                          *)
LEMMA InitPatch ==
  ASSUME Init
  PROVE  PatchInv
<1>1. /\ workspace = settings.files /\ patched = 0 /\ configset = settings.files /\ shadow = <<>> /\ calls = <<>>
  BY DEF Init, IntakeInit
<1>2. Given
  BY InitSnapshot
<1>3. PICK c : c = [n \in 0..0 |-> settings.files]
  OBVIOUS
<1>4. c \in [0..0 -> Filesets(Paths)]
  BY <1>2, <1>3, FilesAreFileset
<1>5. c[0] = settings.files /\ Patching(c, settings.sources, Steps, 0)
  BY <1>3 DEF Patching
<1>6. PatchesTo(settings.sources, Steps, 0, Paths, settings.files, workspace)
  BY <1>1, <1>4, <1>5 DEF PatchesTo
<1>7. Len(Steps) \in Nat
  BY <1>2, StepsAreList
<1>8. CanWork(patched)
  BY <1>1 DEF CanWork, Workable
<1>. QED
  BY <1>1, <1>6, <1>7, <1>8 DEF PatchInv

(* The steps that have nothing to do with the configset.                   *)
LEMMA OthersKeepPatch ==
  ASSUME [Next]_vars, ~PatchTarget, ~UploadConfigset
  PROVE  /\ UNCHANGED <<settings, workspace, patched, configset>>
         /\ UNCHANGED <<shadow, calls>> \/ patched > Len(Steps) \/ shadow # <<>> \/ calls # <<>>
<1>1. CASE UNCHANGED vars
  BY <1>1 DEF vars, intakeVars
<1>2. CASE Next /\ ~IntakeNext
  <2>1. UNCHANGED <<workspace, patched, configset, shadow, calls>>
    BY <1>2 DEF Next, Over, vars, intakeVars
  <2>. QED
    BY <2>1, NextKeepsGiven
<1>3. CASE IntakeNext
  <2>1. CASE CreateCollection \/ PrepareChange \/ CallSchemaApi
    BY <2>1 DEF CreateCollection, PrepareChange, CallSchemaApi, KeepRun, request
  <2>2. CASE ~(CreateCollection \/ PrepareChange \/ CallSchemaApi)
    BY <1>3, <2>2 DEF IntakeNext, SnapshotNext, CaptureSnapshot, LoadSnapshot, WriteFile, DetectCompatibility,
       EndSnapshot, KeepFiles, ValidateChangeset, InitializePlugins, RunPreflight, FinishShadow, LoadFromFile,
       LoadFromPlugin, ExtractFromLog, TakeRow, EndSampling, request, intakeVars, shadowVars, KeepRun
  <2>. QED
    BY <2>1, <2>2
<1>. QED
  BY <1>1, <1>2, <1>3

(* The invariant speaks of these variables only.                           *)
LEMMA SamePatch ==
  ASSUME Given, AcceptedInv, PatchInv, UNCHANGED <<settings, workspace, patched, configset>>,
         UNCHANGED <<shadow, calls>> \/ patched > Len(Steps)
  PROVE  PatchInv'
<1>1. Steps' = Steps
  BY DEF Steps
<1>2. Paths' = Paths
  BY <1>1 DEF Paths
<1>3. patched \in Nat /\ Len(Steps) \in Nat
  BY StepsAreList DEF AcceptedInv
<1>4. CanWork(patched)' = CanWork(patched) /\ CanWork(Len(Steps))' = CanWork(Len(Steps))
  BY <1>1, <1>2 DEF CanWork
<1>5. UNCHANGED <<shadow, calls>> \/ ~(patched <= Len(Steps))
  BY <1>3
<1>. QED
  BY <1>1, <1>2, <1>3, <1>4, <1>5 DEF PatchInv

-----------------------------------------------------------------------------
(* One more target file, or the fallback.                                  *)
LEMMA TargetKeepsPatch ==
  ASSUME Given, AcceptedInv, PatchInv, PatchTarget
  PROVE  PatchInv'
<1>1. /\ stage = "shadow_create" /\ patched < Len(Steps)
      /\ UNCHANGED <<settings, configset, shadow, calls>>
  BY DEF PatchTarget, Creating, KeepRun, request, PatchFails
<1>2. ValidChangeset(settings) /\ patched \in Nat /\ Len(Steps) \in Nat
  BY <1>1, StepsAreList DEF AcceptedInv
<1>3. PICK n \in Nat, k \in Nat : n = patched /\ k = Len(Steps) /\ n + 1 \in 1..k /\ n < k
  BY <1>1, <1>2
<1>4. PICK steps, sources, paths, files : /\ steps = Steps /\ sources = settings.sources
                                          /\ paths = Paths /\ files = settings.files
  OBVIOUS
<1>5. Steps' = Steps /\ Paths' = Paths
  <2>1. Steps' = Steps
    BY <1>1 DEF Steps
  <2>. QED
    BY <1>1, <2>1 DEF Paths
<1>6. CASE patched' = Len(Steps) + 1
  <2>1. settings.allow_shared_configset_fallback
    BY <1>1, <1>2, <1>6 DEF PatchTarget, PatchFails
  <2>2. patched' > Len(Steps) /\ ~(patched' <= Len(Steps)) /\ configset = settings.files
    BY <1>1, <1>2, <1>6 DEF PatchInv
  <2>. QED
    BY <1>1, <1>5, <2>1, <2>2 DEF PatchInv
<1>7. CASE UNCHANGED <<workspace, patched>>
  BY <1>1, <1>7, SamePatch
<1>8. CASE /\ workspace' = PatchFile(workspace, sources, steps[n + 1]) /\ patched' = n + 1
           /\ ~PatchRaises(sources, steps[n + 1])
  <2>1. PatchesTo(sources, steps, n, paths, files, workspace) /\ Workable(steps, sources, n, paths)
    BY <1>1, <1>2, <1>3, <1>4 DEF PatchInv, CanWork
  <2>2. Workable(steps, sources, n + 1, paths)
    <3>1. /\ steps[n + 1].path \in paths /\ steps[n + 1].mode \in UpdateModes
          /\ sources[steps[n + 1].source] \in Seq(Nat)
      BY <1>3, <1>4, <1>8, StepWorks
    <3>2. \A m \in 1..(n + 1) : m \in 1..n \/ m = n + 1
      BY <1>3
    <3>. QED
      BY <2>1, <3>1, <3>2 DEF Workable
  <2>3. PatchesTo(sources, steps, n + 1, paths, files, workspace')
    <3>1. PICK now, new : now = workspace /\ new = workspace'
      OBVIOUS
    <3>2. n + 1 \in Nat /\ n < n + 1
      BY <1>3
    <3>3. PatchesTo(sources, steps, n + 1, paths, files, new)
      BY <1>3, <1>8, <2>1, <2>2, <3>1, <3>2, PatchOn
    <3>. QED
      BY <3>1, <3>3
  <2>4. configset = settings.files /\ shadow = <<>> /\ calls = <<>>
    BY <1>1, <1>2 DEF PatchInv
  <2>5. ~(patched' > Len(Steps)) /\ CanWork(patched)'
    BY <1>1, <1>3, <1>4, <1>5, <1>8, <2>2 DEF CanWork
  <2>. QED
    BY <1>1, <1>4, <1>5, <1>8, <2>3, <2>4, <2>5 DEF PatchInv
<1>. QED
  <2>1. \/ patched' = Len(Steps) + 1
        \/ UNCHANGED <<workspace, patched>>
        \/ /\ workspace' = PatchFile(workspace, sources, steps[n + 1]) /\ patched' = n + 1
           /\ ~PatchRaises(sources, steps[n + 1])
    BY <1>3, <1>4 DEF PatchTarget, PatchFails
  <2>. QED
    BY <1>6, <1>7, <1>8, <2>1

(* The upload, or the fallback.                                            *)
LEMMA UploadKeepsPatch ==
  ASSUME Given, AcceptedInv, PatchInv, UploadConfigset
  PROVE  PatchInv'
<1>1. stage = "shadow_create" /\ patched = Len(Steps) /\ UNCHANGED <<settings, workspace, shadow, calls>>
  BY DEF UploadConfigset, Creating, KeepRun, request
<1>2. patched \in Nat /\ Len(Steps) \in Nat
  BY <1>1, StepsAreList DEF AcceptedInv
<1>3. /\ configset = settings.files /\ CanWork(Len(Steps))
      /\ PatchesTo(settings.sources, Steps, Len(Steps), Paths, settings.files, workspace)
  BY <1>1, <1>2 DEF PatchInv
<1>4. workspace = AllPatched(settings.sources, Steps, settings.files)
  <2>1. PICK k, steps, sources, paths, files : /\ k = Len(Steps) /\ k \in Nat /\ steps = Steps
                                               /\ sources = settings.sources /\ paths = Paths /\ files = settings.files
    BY <1>2
  <2>2. PICK now, all : now = workspace /\ all = AllPatched(sources, steps, files)
    OBVIOUS
  <2>3. PatchesTo(sources, steps, k, paths, files, all)
    <3>1. PatchesTo(settings.sources, Steps, Len(Steps), Paths, settings.files,
                    AllPatched(settings.sources, Steps, settings.files))
      BY <1>3, FilesAreFileset, AllPatchedIs
    <3>. QED
      BY <2>1, <2>2, <3>1
  <2>4. PICK c : c[0] = files /\ c[k] = all /\ Patching(c, sources, steps, k)
    BY <2>3 DEF PatchesTo
  <2>5. PICK d : d[0] = files /\ d[k] = now /\ Patching(d, sources, steps, k)
    BY <1>3, <2>1, <2>2 DEF PatchesTo
  <2>6. k \in 0..k /\ c[k] = d[k]
    BY <2>1, <2>4, <2>5, PatchesAgree
  <2>. QED
    BY <2>1, <2>2, <2>4, <2>5, <2>6
<1>5. Steps' = Steps /\ Paths' = Paths /\ CanWork(Len(Steps))' = CanWork(Len(Steps))
  <2>1. Steps' = Steps
    BY <1>1 DEF Steps
  <2>. QED
    BY <1>1, <2>1 DEF Paths, CanWork
<1>6. CASE configset' = workspace /\ patched' = Len(Steps) + 1
  <2>1. patched' > Len(Steps) /\ ~(patched' <= Len(Steps))
    BY <1>2, <1>6
  <2>. QED
    BY <1>1, <1>2, <1>3, <1>4, <1>5, <1>6, <2>1 DEF PatchInv
<1>7. CASE PatchFails("SolrRequestError")
  <2>1. CASE settings.allow_shared_configset_fallback
    <3>1. configset' = configset /\ patched' = Len(Steps) + 1
      BY <1>7, <2>1 DEF PatchFails
    <3>2. patched' > Len(Steps) /\ ~(patched' <= Len(Steps))
      BY <1>2, <3>1
    <3>. QED
      BY <1>1, <1>2, <1>3, <1>5, <2>1, <3>1, <3>2 DEF PatchInv
  <2>2. CASE ~settings.allow_shared_configset_fallback
    <3>1. UNCHANGED <<patched, configset>>
      BY <1>7, <2>2 DEF PatchFails
    <3>. QED
      BY <1>1, <3>1, SamePatch
  <2>. QED
    BY <2>1, <2>2
<1>. QED
  BY <1>6, <1>7 DEF UploadConfigset

(* Every step of the run keeps it.                                         *)
LEMMA PatchStep ==
  ASSUME Given, AcceptedInv, PatchInv, [Next]_vars
  PROVE  PatchInv'
<1>1. CASE PatchTarget \/ UploadConfigset
  BY <1>1, TargetKeepsPatch, UploadKeepsPatch
<1>2. CASE ~PatchTarget /\ ~UploadConfigset
  <2>1. shadow # <<>> \/ calls # <<>> => patched > Len(Steps)
    <3>1. patched \in Nat /\ Len(Steps) \in Nat
      BY StepsAreList DEF AcceptedInv
    <3>. QED
      BY <3>1 DEF PatchInv
  <2>. QED
    BY <1>2, <2>1, OthersKeepPatch, SamePatch
<1>. QED
  BY <1>1, <1>2

(* What is said of a path, the steps being gone through and through again. *)
LEMMA PathSettles ==
  ASSUME NEW k \in Nat, NEW P, NEW sources, NEW steps, Workable(steps, sources, k, P),
         NEW files, NEW now, NEW again, PatchesTo(sources, steps, k, P, files, now),
         PatchesTo(sources, steps, k, P, now, again), NEW path \in DOMAIN now,
         NEW on, on = StepsOn(steps, k, path), NEW mode, mode = Modes(steps, k),
         NEW text, text = Texts(sources, steps, k)
  PROVE  /\ on = {} => now[path] = files[path]
         /\ Settled(now[path], ReadLines(files, path), again[path], on, mode, text, k)
<1>1. PICK c \in [0..k -> Filesets(P)] : c[0] = files /\ c[k] = now /\ Patching(c, sources, steps, k)
  BY DEF PatchesTo
<1>2. PICK d \in [0..k -> Filesets(P)] : d[0] = now /\ d[k] = again /\ Patching(d, sources, steps, k)
  BY DEF PatchesTo
<1>3. PICK r, q : r = LinesAt(c, k, path) /\ q = LinesAt(d, k, path)
  OBVIOUS
<1>4. /\ Worked(r, on, mode, text, k)
      /\ on = {} => r[k] = r[0] /\ (path \in DOMAIN c[k] => path \in DOMAIN c[0])
  BY <1>1, <1>3, PathWorked
<1>5. Worked(q, on, mode, text, k) /\ (path \in DOMAIN d[0] => path \in DOMAIN d[k])
  BY <1>2, <1>3, PathWorked
<1>6. /\ r[k] = ReadLines(now, path) /\ r[0] = ReadLines(files, path)
      /\ q[k] = ReadLines(again, path) /\ q[0] = ReadLines(now, path)
  <2>1. 0 \in 0..k /\ k \in 0..k
    OBVIOUS
  <2>. QED
    BY <1>1, <1>2, <1>3, <2>1 DEF LinesAt
<1>7. ReadLines(now, path) = now[path] /\ ReadLines(again, path) = again[path]
  BY <1>2, <1>5 DEF ReadLines
<1>8. Settled(r[k], r[0], q[k], on, mode, text, k)
  BY <1>4, <1>5, <1>6, LinesSettle
<1>9. on = {} => ReadLines(files, path) = files[path]
  BY <1>1, <1>4 DEF ReadLines
<1>. QED
  BY <1>4, <1>6, <1>7, <1>8, <1>9

(* What PatchesSettle says of one path of the patched configset.           *)
SettledAt(path) ==
  LET on == {n \in DOMAIN Steps : Steps[n].path = path}
      since == Max({n \in on : Steps[n].mode = "replace"} \cup {0})
      before == IF since = 0 THEN ReadLines(settings.files, path) ELSE <<>>
      texts == [n \in DOMAIN Steps |->
                  IF n \in on /\ n >= since THEN settings.sources[Steps[n].source] ELSE <<>>]
  IN  /\ on = {} => configset[path] = settings.files[path]
      /\ on # {} =>
           /\ DedupeMerge(<<>>, configset[path]) = DedupeMerge(<<>>, Kept(before \o FlattenSeq(texts)))
           /\ Steps[Max(on)].mode = "patch_merge" => IsInjective(configset[path])
      /\ (\A n \in on : Steps[n].mode # "patch_append") =>
           Repatched(configset)[path] = configset[path]

(* That follows where the patch was made of all the steps.                 *)
LEMMA AllPatchedSettles ==
  ASSUME Given, CanWork(Len(Steps)), configset = AllPatched(settings.sources, Steps, settings.files),
         NEW path \in DOMAIN configset
  PROVE  SettledAt(path)
<1>1. PICK k, steps, sources, P, files, now, again :
        /\ k = Len(Steps) /\ k \in Nat /\ steps = Steps /\ sources = settings.sources /\ P = Paths
        /\ files = settings.files /\ now = configset /\ again = AllPatched(settings.sources, Steps, configset)
  BY StepsAreList
<1>2. Workable(steps, sources, k, P) /\ PatchesTo(sources, steps, k, P, files, now)
  BY <1>1, FilesAreFileset, AllPatchedIs DEF CanWork
<1>3. now \in Filesets(P)
  <2>1. PICK c \in [0..k -> Filesets(P)] : c[k] = now
    BY <1>2 DEF PatchesTo
  <2>2. k \in 0..k
    BY <1>1
  <2>. QED
    BY <2>1, <2>2
<1>4. PatchesTo(sources, steps, k, P, now, again)
  BY <1>1, <1>3, AllPatchedIs
<1>5. PICK on, mode, text : on = StepsOn(steps, k, path) /\ mode = Modes(steps, k) /\ text = Texts(sources, steps, k)
  OBVIOUS
<1>6. /\ on = {} => now[path] = files[path]
      /\ Settled(now[path], ReadLines(files, path), again[path], on, mode, text, k)
  BY <1>1, <1>2, <1>4, <1>5, PathSettles
<1>7. DOMAIN steps = 1..k
  BY <1>1, StepsAreList DEF IsList
<1>8. on = {n \in DOMAIN steps : steps[n].path = path} /\ on \subseteq 1..k
  BY <1>5, <1>7 DEF StepsOn
<1>9. \A n \in 1..k : mode[n] = steps[n].mode /\ text[n] = sources[steps[n].source]
  BY <1>5 DEF Modes, Texts
<1>10. PICK since : since = Max({n \in on : mode[n] = "replace"} \cup {0})
  OBVIOUS
<1>11. since = Max({n \in on : steps[n].mode = "replace"} \cup {0})
  <2>1. {n \in on : mode[n] = "replace"} = {n \in on : steps[n].mode = "replace"}
    BY <1>8, <1>9
  <2>. QED
    BY <1>10, <2>1
<1>12. PICK texts : texts = [n \in 1..k |-> IF n \in on /\ n >= since THEN text[n] ELSE <<>>]
  OBVIOUS
<1>13. texts = [n \in DOMAIN steps |-> IF n \in on /\ n >= since THEN sources[steps[n].source] ELSE <<>>]
  BY <1>7, <1>9, <1>12
<1>14. PICK before : before = IF since = 0 THEN ReadLines(files, path) ELSE <<>>
  OBVIOUS
<1>15. ASSUME on # {}
       PROVE  /\ Once(now[path]) = Once(Kept(before \o FlattenSeq(texts)))
              /\ steps[Max(on)].mode = "patch_merge" => IsInjective(now[path])
  <2>1. Max(on) \in 1..k
    BY <1>1, <1>8, <1>15, GreatestNumber
  <2>2. mode[Max(on)] = steps[Max(on)].mode
    BY <1>9, <2>1
  <2>. QED
    BY <1>6, <1>10, <1>12, <1>14, <1>15, <2>2 DEF Settled
<1>16. ASSUME \A n \in on : steps[n].mode # "patch_append" PROVE again[path] = now[path]
  <2>1. \A n \in on : mode[n] # "patch_append"
    BY <1>8, <1>9, <1>16
  <2>. QED
    BY <1>6, <2>1 DEF Settled
<1>17. Repatched(configset) = again
  BY <1>1, RepatchedAll
<1>. QED
  BY <1>1, <1>6, <1>8, <1>11, <1>13, <1>14, <1>15, <1>16, <1>17, Zenon DEF SettledAt, Once

(* shadow/configset_patcher.py: a patched file has the lines of every      *)
(* source since the last that replaced it, in the order they first came,   *)
(* each once after a merge; patching again changes nothing where nothing   *)
(* is appended; the shadow has all of the patch or, where the fallback     *)
(* allows it, nothing of it; for any files, sources and changes.           *)
THEOREM PatchesAreSettled == Spec => []PatchesSettle
<1>1. Init => Given /\ AcceptedInv /\ PatchInv
  BY InitSnapshot, InitAccepted, InitPatch
<1>2. Given /\ AcceptedInv /\ PatchInv /\ [Next]_vars => (Given /\ AcceptedInv /\ PatchInv)'
  BY NextKeepsGiven, AcceptedStep, PatchStep
<1>3. Given /\ AcceptedInv /\ PatchInv => PatchesSettle
  <2>1. SUFFICES ASSUME Given, AcceptedInv, PatchInv, shadow # <<>>
                 PROVE  /\ \/ configset = Repatched(settings.files)
                           \/ configset = settings.files /\ settings.allow_shared_configset_fallback
                        /\ configset # settings.files => \A path \in DOMAIN configset : SettledAt(path)
    BY DEF PatchesSettle, SettledAt
  <2>2. ~(patched <= Len(Steps))
    BY <2>1 DEF PatchInv
  <2>3. patched > Len(Steps)
    BY <2>1, <2>2, StepsAreList DEF AcceptedInv
  <2>4. \/ CanWork(Len(Steps)) /\ configset = AllPatched(settings.sources, Steps, settings.files)
        \/ configset = settings.files /\ settings.allow_shared_configset_fallback
    BY <2>1, <2>3 DEF PatchInv
  <2>5. Repatched(settings.files) = AllPatched(settings.sources, Steps, settings.files)
    BY RepatchedAll
  <2>6. configset # settings.files => \A path \in DOMAIN configset : SettledAt(path)
    BY <2>1, <2>4, AllPatchedSettles
  <2>. QED
    BY <2>4, <2>5, <2>6
<1>. QED
  BY <1>1, <1>2, <1>3, PTL DEF Spec
=============================================================================
