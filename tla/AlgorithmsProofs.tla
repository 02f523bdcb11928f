-------------------------- MODULE AlgorithmsProofs --------------------------
(***************************************************************************)
(* What the algorithms compute, for every input: the permission gate, the  *)
(* telemetry of a delegation and what is added up of it, the graph of a    *)
(* pipeline and its file, the pages of a collection, and the columns that  *)
(* a deploy compares.                                                      *)
(***************************************************************************)
EXTENDS MCAlgorithms, Telemetry, PipelineProofs

-----------------------------------------------------------------------------
(* Folds over a finite set: each takes an element off, the same of the      *)
(* same set, and combines it with what the fold of the rest gives.          *)

Pick(s) == CHOOSE x \in s : TRUE
FoldRule(g, S, base, F) ==
    \A s \in SUBSET S : g[s] = IF s = {} THEN base ELSE F[<<Pick(s), g[s \ {Pick(s)}]>>]

LEMMA PickIn == \A s : s # {} => Pick(s) \in s
  BY DEF Pick

LEMMA WithoutPick ==
    ASSUME NEW U, IsFiniteSet(U), NEW s \in SUBSET U, s # {}
    PROVE  /\ s \ {Pick(s)} \in SUBSET U /\ Pick(s) \in U
           /\ Cardinality(s) \in Nat /\ Cardinality(s \ {Pick(s)}) \in Nat
           /\ Cardinality(s \ {Pick(s)}) = Cardinality(s) - 1
<1>1. Pick(s) \in s
  BY PickIn
<1>2. IsFiniteSet(s)
  BY FS_Subset
<1>3. Cardinality(s \ {Pick(s)}) = Cardinality(s) - 1 /\ IsFiniteSet(s \ {Pick(s)})
  BY <1>1, <1>2, FS_RemoveElement
<1>. QED  BY <1>1, <1>2, <1>3, FS_CardinalityType

\* What holds of the empty set, and of a set if it holds of it without an element,
\* holds of every subset.
LEMMA SubsetsUpTo ==
    ASSUME NEW U, IsFiniteSet(U), NEW Good, {} \in Good,
           \A s \in SUBSET U : s # {} /\ s \ {Pick(s)} \in Good => s \in Good
    PROVE  \A s \in SUBSET U : s \in Good
<1>. DEFINE Missed == {s \in SUBSET U : s \notin Good}
            Sizes == {n \in Nat : \E s \in Missed : n = Cardinality(s)}
<1>. SUFFICES ASSUME Missed # {} PROVE FALSE
  OBVIOUS
<1>1. \A s \in Missed : IsFiniteSet(s) /\ Cardinality(s) \in Nat
  BY FS_Subset, FS_CardinalityType
<1>2. Sizes # {} /\ Sizes \in SUBSET Nat
  BY <1>1
<1>3. PICK n \in Sizes : \A m \in Sizes : n <= m
  <2>. HIDE DEF Sizes
  <2>. QED  BY <1>2, LeastNumber
<1>4. PICK s \in Missed : n = Cardinality(s)
  OBVIOUS
<1>5. s # {} /\ s \in SUBSET U
  OBVIOUS
<1>6. /\ s \ {Pick(s)} \in SUBSET U /\ Cardinality(s \ {Pick(s)}) \in Nat
      /\ Cardinality(s) \in Nat /\ Cardinality(s \ {Pick(s)}) = Cardinality(s) - 1
  BY <1>5, WithoutPick
<1>7. s \ {Pick(s)} \in Missed
  BY <1>5, <1>6
<1>8. Cardinality(s \ {Pick(s)}) \in Sizes
  BY <1>6, <1>7
<1>9. n <= Cardinality(s \ {Pick(s)})
  BY <1>3, <1>8
<1>. QED  BY <1>4, <1>6, <1>9

LEMMA FoldExists ==
    ASSUME NEW U, IsFiniteSet(U), NEW T, NEW base \in T, NEW F \in [U \X T -> T]
    PROVE  \E g \in [SUBSET U -> T] : FoldRule(g, U, base, F)
<1>. DEFINE rule(g, s) == g[s] = IF s = {} THEN base ELSE F[<<Pick(s), g[s \ {Pick(s)}]>>]
            Upto(n, g) == \A s \in SUBSET U : Cardinality(s) <= n => rule(g, s)
            M == Cardinality(U)
            Reached == {n \in 0..M : \E g \in [SUBSET U -> T] : Upto(n, g)}
<1>1. M \in Nat /\ \A s \in SUBSET U : Cardinality(s) \in Nat /\ Cardinality(s) <= M /\ (Cardinality(s) = 0 => s = {})
  BY FS_CardinalityType, FS_Subset, FS_EmptySet
<1>2. 0 \in Reached
  <2>1. PICK g : g = [s \in SUBSET U |-> base]
    OBVIOUS
  <2>2. g \in [SUBSET U -> T]
    BY <2>1
  <2>3. Upto(0, g)
    BY <1>1, <2>1
  <2>4. 0 \in 0..M
    BY <1>1
  <2>. HIDE DEF Upto
  <2>. QED  BY <2>2, <2>3, <2>4
<1>3. ASSUME NEW n \in 1..M, n - 1 \in Reached PROVE n \in Reached
  <2>1. PICK g \in [SUBSET U -> T] : Upto(n - 1, g)
    BY <1>3
  <2>2. ASSUME NEW s \in SUBSET U, s # {}
        PROVE  /\ s \ {Pick(s)} \in SUBSET U /\ <<Pick(s), g[s \ {Pick(s)}]>> \in U \X T
               /\ F[<<Pick(s), g[s \ {Pick(s)}]>>] \in T
               /\ Cardinality(s \ {Pick(s)}) = Cardinality(s) - 1
    BY <2>2, WithoutPick
  <2>3. PICK h : h = [s \in SUBSET U |-> IF s = {} THEN base ELSE F[<<Pick(s), g[s \ {Pick(s)}]>>]]
    OBVIOUS
  <2>4. h \in [SUBSET U -> T]
    BY <2>2, <2>3
  <2>5. ASSUME NEW s \in SUBSET U, Cardinality(s) <= n PROVE rule(h, s)
    <3>1. CASE s = {}
      BY <2>3, <3>1
    <3>2. CASE s # {}
      <4>1. PICK r : r = s \ {Pick(s)}
        OBVIOUS
      <4>2. r \in SUBSET U /\ Cardinality(r) <= n - 1
        <5>1. r \in SUBSET U /\ Cardinality(r) = Cardinality(s) - 1
          BY <2>2, <3>2, <4>1
        <5>2. Cardinality(s) \in Nat /\ n \in Nat /\ Cardinality(s) <= n
          BY <1>1, <2>5
        <5>. QED  BY <5>1, <5>2
      <4>3. g[r] = IF r = {} THEN base ELSE F[<<Pick(r), g[r \ {Pick(r)}]>>]
        BY <2>1, <4>2
      <4>4. h[r] = g[r]
        BY <2>3, <4>2, <4>3
      <4>5. h[s] = F[<<Pick(s), g[r]>>]
        BY <2>3, <3>2, <4>1
      <4>. QED  BY <3>2, <4>1, <4>4, <4>5
    <3>. QED  BY <3>1, <3>2
  <2>6. Upto(n, h) /\ n \in 0..M
    BY <1>1, <2>5
  <2>. HIDE DEF Upto
  <2>. QED  BY <2>4, <2>6
<1>. HIDE DEF Reached
<1>4. M \in Reached
  <2>. HIDE DEF M
  <2>1. M \in 0..M /\ \A n \in 1..M : n - 1 \in Reached => n \in Reached
    BY <1>1, <1>3
  <2>. QED  BY <1>1, <1>2, <2>1, UpTo
<1>5. PICK g \in [SUBSET U -> T] : Upto(M, g)
  BY <1>4 DEF Reached
<1>. QED  BY <1>1, <1>5 DEF FoldRule

\* A sum by such a fold is what any additive function says.
SumRule(g, S, f) == \A s \in SUBSET S : g[s] = IF s = {} THEN 0 ELSE f[Pick(s)] + g[s \ {Pick(s)}]
Additive(C, M, f) ==
    /\ C \in [SUBSET (1..M) -> Nat] /\ C[{}] = 0
    /\ \A s \in SUBSET (1..M) : \A x \in s : C[s] = f[x] + C[s \ {x}]

LEMMA SumExists ==
    ASSUME NEW S, IsFiniteSet(S), NEW f \in [S -> Nat]
    PROVE  \E g \in [SUBSET S -> Nat] : SumRule(g, S, f)
<1>1. PICK F : F = [p \in S \X Nat |-> f[p[1]] + p[2]]
  OBVIOUS
<1>2. F \in [S \X Nat -> Nat]
  BY <1>1
<1>3. PICK g \in [SUBSET S -> Nat] : FoldRule(g, S, 0, F)
  BY <1>2, FoldExists
<1>4. ASSUME NEW s \in SUBSET S, s # {}
      PROVE  F[<<Pick(s), g[s \ {Pick(s)}]>>] = f[Pick(s)] + g[s \ {Pick(s)}]
  <2>1. <<Pick(s), g[s \ {Pick(s)}]>> \in S \X Nat
    BY <1>4, WithoutPick
  <2>. QED  BY <1>1, <2>1
<1>. QED  BY <1>3, <1>4 DEF FoldRule, SumRule

LEMMA AdditiveExists ==
    ASSUME NEW M \in Nat, NEW f \in [1..M -> Nat]
    PROVE  \E C : Additive(C, M, f)
<1>. DEFINE Good == {k \in 0..M : \E C : Additive(C, k, f)}
<1>1. 0 \in Good
  <2>1. PICK C : C = [s \in SUBSET (1..0) |-> 0]
    OBVIOUS
  <2>2. C \in [SUBSET (1..0) -> Nat] /\ C[{}] = 0
    BY <2>1
  <2>3. Additive(C, 0, f)
    BY <2>2 DEF Additive
  <2>. QED  BY <2>3
<1>2. ASSUME NEW k \in 1..M, k - 1 \in Good PROVE k \in Good
  <2>1. PICK B : Additive(B, k - 1, f)
    BY <1>2
  <2>2. /\ B \in [SUBSET (1..(k - 1)) -> Nat] /\ B[{}] = 0
        /\ \A s \in SUBSET (1..(k - 1)) : \A x \in s : B[s] = f[x] + B[s \ {x}]
    BY <2>1 DEF Additive
  <2>3. PICK C : C = [s \in SUBSET (1..k) |-> IF k \in s THEN f[k] + B[s \ {k}] ELSE B[s]]
    OBVIOUS
  <2>4. ASSUME NEW s \in SUBSET (1..k)
        PROVE  /\ s \ {k} \in SUBSET (1..(k - 1)) /\ (k \notin s => s \in SUBSET (1..(k - 1)))
               /\ s \in SUBSET (1..M) /\ f[k] \in Nat
    OBVIOUS
  <2>5. C \in [SUBSET (1..k) -> Nat] /\ C[{}] = 0
    <3>1. \A s \in SUBSET (1..k) : (IF k \in s THEN f[k] + B[s \ {k}] ELSE B[s]) \in Nat
      BY <2>2, <2>4
    <3>. QED  BY <2>2, <2>3, <3>1
  <2>6. ASSUME NEW s \in SUBSET (1..k), NEW x \in s PROVE C[s] = f[x] + C[s \ {x}]
    <3>1. s \ {x} \in SUBSET (1..k) /\ (s \ {k}) \ {x} = (s \ {x}) \ {k}
      OBVIOUS
    <3>2. /\ C[s] = IF k \in s THEN f[k] + B[s \ {k}] ELSE B[s]
          /\ C[s \ {x}] = IF k \in s \ {x} THEN f[k] + B[(s \ {x}) \ {k}] ELSE B[s \ {x}]
      BY <2>3, <3>1
    <3>3. CASE x = k
      BY <3>2, <3>3
    <3>4. CASE x # k /\ k \in s
      <4>1. B[s \ {k}] = f[x] + B[(s \ {x}) \ {k}] /\ B[(s \ {x}) \ {k}] \in Nat
        <5>1. x \in s \ {k} /\ s \ {k} \in SUBSET (1..(k - 1)) /\ (s \ {k}) \ {x} \in SUBSET (1..(k - 1))
          BY <2>4, <3>4
        <5>2. B[s \ {k}] = f[x] + B[(s \ {k}) \ {x}] /\ B[(s \ {k}) \ {x}] \in Nat
          BY <2>2, <5>1
        <5>. QED  BY <3>1, <5>2
      <4>2. f[k] \in Nat /\ f[x] \in Nat
        OBVIOUS
      <4>. QED  BY <3>2, <3>4, <4>1, <4>2
    <3>5. CASE k \notin s
      <4>1. B[s] = f[x] + B[s \ {x}]
        BY <2>2, <2>4, <3>5
      <4>. QED  BY <3>2, <3>5, <4>1
    <3>. QED  BY <3>3, <3>4, <3>5
  <2>7. Additive(C, k, f)
    BY <2>5, <2>6 DEF Additive
  <2>. QED  BY <2>7
<1>. HIDE DEF Good
<1>3. \A k \in 0..M : k \in Good
  BY <1>1, <1>2, UpTo
<1>. QED  BY <1>3 DEF Good

LEMMA SumsAgree ==
    ASSUME NEW M \in Nat, NEW f, NEW C, Additive(C, M, f),
           NEW S \in SUBSET (1..M), NEW g, SumRule(g, S, f)
    PROVE  g[S] = C[S]
<1>. DEFINE Good == {s \in SUBSET S : g[s] = C[s]}
<1>1. IsFiniteSet(S)
  <2>1. IsFiniteSet(1..M)
    BY FS_Interval
  <2>. QED  BY <2>1, FS_Subset
<1>2. {} \in Good
  BY DEF Additive, SumRule
<1>3. ASSUME NEW s \in SUBSET S, s # {}, s \ {Pick(s)} \in Good PROVE s \in Good
  <2>1. Pick(s) \in s /\ s \in SUBSET (1..M)
    BY <1>3, PickIn
  <2>2. C[s] = f[Pick(s)] + C[s \ {Pick(s)}]
    BY <2>1 DEF Additive
  <2>3. g[s] = f[Pick(s)] + g[s \ {Pick(s)}]
    BY <1>3 DEF SumRule
  <2>. QED  BY <1>3, <2>2, <2>3
<1>. HIDE DEF Good
<1>4. \A s \in SUBSET S : s \in Good
  BY <1>1, <1>2, <1>3, SubsetsUpTo
<1>. QED  BY <1>4 DEF Good

\* Numbers that add nothing may be left out of a sum.
LEMMA RestIsNothing ==
    ASSUME NEW M \in Nat, NEW f, NEW C, Additive(C, M, f), NEW n \in 0..M,
           \A k \in 1..M : k > n => f[k] = 0
    PROVE  C[1..M] = C[1..n]
<1>. DEFINE Good == {k \in 0..M : k >= n => C[1..k] = C[1..n]}
<1>1. 0 \in Good
  <2>1. 0 >= n => n = 0
    OBVIOUS
  <2>. QED  BY <2>1
<1>2. ASSUME NEW k \in 1..M, k - 1 \in Good PROVE k \in Good
  <2>1. CASE k <= n
    <3>1. k >= n => k = n
      BY <2>1
    <3>. QED  BY <3>1
  <2>2. CASE k > n
    <3>1. 1..k \in SUBSET (1..M) /\ k \in 1..k /\ (1..k) \ {k} = 1..(k - 1) /\ 1..(k - 1) \in SUBSET (1..M)
      OBVIOUS
    <3>2. C[1..k] = f[k] + C[1..(k - 1)] /\ C[1..(k - 1)] \in Nat
      <4>1. C \in [SUBSET (1..M) -> Nat] /\ \A s \in SUBSET (1..M) : \A x \in s : C[s] = f[x] + C[s \ {x}]
        BY DEF Additive
      <4>2. C[1..k] = f[k] + C[(1..k) \ {k}]
        BY <3>1, <4>1
      <4>. QED  BY <3>1, <4>1, <4>2
    <3>4. f[k] = 0
      BY <2>2
    <3>3. C[1..(k - 1)] = C[1..n]
      BY <1>2, <2>2
    <3>. QED  BY <3>2, <3>3, <3>4
  <2>. QED  BY <2>1, <2>2
<1>. HIDE DEF Good
<1>3. \A k \in 0..M : k \in Good
  BY <1>1, <1>2, UpTo
<1>. QED  BY <1>3 DEF Good

-----------------------------------------------------------------------------
(* The gate.  A policy narrower than another permits less, asks whenever    *)
(* the other does, and gives no bash command a wider tier.                  *)

NarrowerMode(a, b) == a \in Modes /\ b \in Modes /\ _ORDER[a] <= _ORDER[b]
NarrowerConfig(c, d) == d.denied_tools \subseteq c.denied_tools /\ d.bash_deny \subseteq c.bash_deny

\* The tier that narrower rules give a command is no wider.
NarrowerRules(p, q, command) ==
    /\ KeyIn(command, q.deny) => KeyIn(command, p.deny)
    /\ KeyIn(command, p.prompt) => KeyIn(command, q.prompt)
    /\ KeyIn(command, p.allow) => KeyIn(command, q.allow) /\ ~KeyIn(command, q.prompt)

NarrowerPolicy(p, q, command) ==
    /\ NarrowerMode(p.mode, q.mode)
    /\ p.permitted \subseteq q.permitted
    /\ p.permitted \cap q.prompt \subseteq p.prompt
    /\ NarrowerRules(p.bash, q.bash, command)

Decisions == {"allow", "deny", "needs_user_input"}
NoWider(x, y) == x \in Decisions /\ y \in Decisions /\ (x = "deny" \/ y = "allow" \/ x = y)

LEMMA WidthOfAnswers ==
    ASSUME NEW x, NEW y, NoWider(x, y)
    PROVE  Width[x] <= Width[y]
<1>1. Width["deny"] = 0 /\ Width["needs_user_input"] = 1 /\ Width["allow"] = 2
  BY DEF Width
<1>. QED  BY <1>1 DEF NoWider, Decisions

LEMMA ModesInOrder ==
    /\ _ORDER["read_only"] = 0 /\ _ORDER["plan"] = 1 /\ _ORDER["build"] = 2 /\ _ORDER["deploy"] = 3
    /\ \A m \in Modes : mode_permits(m, "build") <=> m \in {"build", "deploy"}
    /\ \A m \in Modes : mode_permits(m, "deploy") <=> m = "deploy"
<1>1. _ORDER["read_only"] = 0 /\ _ORDER["plan"] = 1 /\ _ORDER["build"] = 2 /\ _ORDER["deploy"] = 3
  BY DEF _ORDER
<1>. QED  BY <1>1 DEF Modes, mode_permits

LEMMA NarrowerModes ==
    ASSUME NEW a, NEW b, NarrowerMode(a, b)
    PROVE  /\ a \in Modes /\ b \in Modes
           /\ mode_permits(a, "build") => mode_permits(b, "build")
           /\ mode_permits(a, "deploy") => mode_permits(b, "deploy")
           /\ a = "deploy" => b = "deploy"
           /\ b \in {"read_only", "plan"} => a \in {"read_only", "plan"}
  BY ModesInOrder DEF NarrowerMode, Modes

LEMMA TierNarrows ==
    ASSUME NEW p, NEW q, NEW command, NarrowerRules(p, q, command),
           NEW x, NEW y, x = tier_bash_command(command, p), y = tier_bash_command(command, q)
    PROVE  /\ x \in {"deny", "prompt", "allow"} /\ y \in {"deny", "prompt", "allow"}
           /\ x = "deny" \/ y = "allow" \/ x = y
  BY DEF tier_bash_command, NarrowerRules

LEMMA BashNarrows ==
    ASSUME NEW p, NEW q, NEW command, NEW approver, NarrowerRules(p.bash, q.bash, command)
    PROVE  NoWider(_check_bash(p, command, approver), _check_bash(q, command, approver))
<1>1. PICK x, y : x = tier_bash_command(command, p.bash) /\ y = tier_bash_command(command, q.bash)
  OBVIOUS
<1>2. /\ x \in {"deny", "prompt", "allow"} /\ y \in {"deny", "prompt", "allow"}
      /\ x = "deny" \/ y = "allow" \/ x = y
  BY <1>1, TierNarrows
<1>3. Asked(approver) \in {"allow", "needs_user_input"}
  BY DEF Asked
<1>4. /\ _check_bash(p, command, approver) = IF x = "prompt" THEN Asked(approver) ELSE x
      /\ _check_bash(q, command, approver) = IF y = "prompt" THEN Asked(approver) ELSE y
  BY <1>1 DEF _check_bash
<1>. QED  BY <1>2, <1>3, <1>4 DEF NoWider, Decisions

\* The gate gives a narrower policy no wider answer.
LEMMA GateIsMonotone ==
    ASSUME NEW p, NEW q, NEW tool, NEW command, NEW approver, NarrowerPolicy(p, q, command)
    PROVE  NoWider(check(p, tool, command, approver), check(q, tool, command, approver))
<1>1. /\ mode_permits(p.mode, "build") => mode_permits(q.mode, "build")
      /\ mode_permits(p.mode, "deploy") => mode_permits(q.mode, "deploy")
  BY NarrowerModes DEF NarrowerPolicy
<1>2. NoWider(_check_bash(p, command, approver), _check_bash(q, command, approver))
  BY BashNarrows DEF NarrowerPolicy
<1>3. Asked(approver) \in {"allow", "needs_user_input"}
  BY DEF Asked
<1>4. tool \in p.permitted => tool \in q.permitted /\ (tool \in q.prompt => tool \in p.prompt)
  BY DEF NarrowerPolicy
<1>. QED  BY <1>1, <1>2, <1>3, <1>4 DEF check, NoWider, Decisions

-----------------------------------------------------------------------------
(* The policies of build_policy.                                            *)

LEMMA PermittedGrows ==
    ASSUME NEW a, NEW b, NarrowerMode(a, b)
    PROVE  /\ _permitted_tools_for_mode(a) \subseteq _permitted_tools_for_mode(b)
           /\ "mcp:s:write" \notin _permitted_tools_for_mode(a)
<1>1. \A m \in {"read_only", "plan"} : _permitted_tools_for_mode(m) = _READ_TOOLS
  BY Zenon DEF _permitted_tools_for_mode
<1>2. _permitted_tools_for_mode("build") = _READ_TOOLS \cup {"edit"}
  <2>1. "build" \notin {"read_only", "plan"} /\ "build" # "deploy"
    OBVIOUS
  <2>. QED  BY <2>1, Zenon DEF _permitted_tools_for_mode
<1>3. _permitted_tools_for_mode("deploy") = _ALL_TOOLS
  <2>1. "deploy" \notin {"read_only", "plan"} /\ "build" # "deploy"
    OBVIOUS
  <2>. QED  BY <2>1, Zenon DEF _permitted_tools_for_mode
<1>4. /\ a \in {"read_only", "plan", "build", "deploy"} /\ b \in {"read_only", "plan", "build", "deploy"}
      /\ a = "deploy" => b = "deploy"
      /\ b \in {"read_only", "plan"} => a \in {"read_only", "plan"}
  BY NarrowerModes DEF Modes
<1>5. /\ _READ_TOOLS \subseteq _READ_TOOLS \cup {"edit"}
      /\ _READ_TOOLS \cup {"edit"} \subseteq _ALL_TOOLS
      /\ "mcp:s:write" \notin _ALL_TOOLS
  BY DEF _ALL_TOOLS, _READ_TOOLS, WRITE_TOOLS
<1>. QED  BY <1>1, <1>2, <1>3, <1>4, <1>5

\* A command has at most one key that some rule allows or asks about.
LEMMA OneKey ==
    ASSUME NEW command \in Commands, NEW S \in SUBSET (ReadKeys \cup BuildKeys), NEW T \in SUBSET DeployKeys,
           KeyIn(command, S), KeyIn(command, T)
    PROVE  FALSE
<1>1. PICK i \in DOMAIN command.keys, j \in DOMAIN command.keys : command.keys[i] \in S /\ command.keys[j] \in T
  BY DEF KeyIn
<1>2. /\ command.keys[i] \in {"git_status", "git_add"} /\ command.keys[j] = "git_push"
  BY <1>1 DEF ReadKeys, BuildKeys, DeployKeys
<1>3. command.keys \in {<< >>, <<"rm">>, <<"make">>}
          \cup {<<k, "git">> : k \in {"git_status", "git_add", "git_push"}}
  BY DEF Commands
<1>4. CASE command.keys \in {<< >>, <<"rm">>, <<"make">>}
  BY <1>1, <1>2, <1>4
<1>5. CASE \E k : command.keys = <<k, "git">>
  <2>1. PICK k : command.keys = <<k, "git">>
    BY <1>5
  <2>2. i \in {1, 2} /\ j \in {1, 2} /\ command.keys[1] = k /\ command.keys[2] = "git"
    BY <1>1, <2>1
  <2>3. command.keys[i] = k /\ command.keys[j] = k
    BY <1>2, <2>2
  <2>. QED  BY <1>2, <2>3
<1>. QED  BY <1>3, <1>4, <1>5

LEMMA RulesNarrow ==
    ASSUME NEW a, NEW b, NarrowerMode(a, b), NEW bd, NEW cd, bd \subseteq cd, NEW command \in Commands,
           NEW p, p = build_policy(a, [denied_tools |-> {}, bash_deny |-> cd], {}).bash,
           NEW q, q = build_policy(b, [denied_tools |-> {}, bash_deny |-> bd], {}).bash
    PROVE  NarrowerRules(p, q, command)
<1>. PICK x : x = _bash_rules_for_mode(a)
  OBVIOUS
<1>. PICK y : y = _bash_rules_for_mode(b)
  OBVIOUS
<1>1. /\ x.allow \subseteq y.allow /\ x.prompt \subseteq y.prompt /\ x.deny = DenyKeys /\ y.deny = DenyKeys
      /\ y.allow \subseteq ReadKeys \cup BuildKeys /\ y.prompt \subseteq DeployKeys
  BY NarrowerModes DEF _bash_rules_for_mode
<1>2. /\ p.allow = x.allow \ cd /\ p.prompt = x.prompt \ cd /\ p.deny = x.deny \cup cd
      /\ q.allow = y.allow \ bd /\ q.prompt = y.prompt \ bd /\ q.deny = y.deny \cup bd
  BY DEF build_policy
<1>3. /\ p.allow \subseteq q.allow /\ p.prompt \subseteq q.prompt /\ q.deny \subseteq p.deny
      /\ p.allow \in SUBSET (ReadKeys \cup BuildKeys) /\ q.prompt \in SUBSET DeployKeys
  BY <1>1, <1>2
<1>4. ~(KeyIn(command, p.allow) /\ KeyIn(command, q.prompt))
  BY <1>3, OneKey
<1>5. \A S, T : S \subseteq T /\ KeyIn(command, S) => KeyIn(command, T)
  BY DEF KeyIn
<1>. QED  BY <1>3, <1>4, <1>5 DEF NarrowerRules

LEMMA PoliciesNarrow ==
    ASSUME NEW a, NEW b, NarrowerMode(a, b), NEW c, NEW d, NarrowerConfig(c, d), NEW g, NEW h, g \subseteq h,
           NEW command \in Commands, NEW p, p = build_policy(a, c, g), NEW q, q = build_policy(b, d, h)
    PROVE  NarrowerPolicy(p, q, command)
<1>. PICK v : v = _mcp_permitted_for_mode(a)
  OBVIOUS
<1>. PICK w : w = _mcp_permitted_for_mode(b)
  OBVIOUS
<1>1. /\ v.permitted \subseteq w.permitted /\ v.prompt \subseteq w.prompt
      /\ "mcp:s:write" \in v.permitted => "mcp:s:write" \in v.prompt
      /\ w.prompt \subseteq {"mcp:s:write"}
  BY NarrowerModes DEF _mcp_permitted_for_mode
<1>2. /\ _permitted_tools_for_mode(a) \subseteq _permitted_tools_for_mode(b)
      /\ "mcp:s:write" \notin _permitted_tools_for_mode(a)
  BY PermittedGrows
<1>3. /\ p.mode = a /\ q.mode = b
      /\ p.permitted = ((_permitted_tools_for_mode(a) \cap g) \cup _grant_admits(v.permitted, g)) \ c.denied_tools
      /\ q.permitted = ((_permitted_tools_for_mode(b) \cap h) \cup _grant_admits(w.permitted, h)) \ d.denied_tools
      /\ p.prompt = _grant_admits(v.prompt, g) \ c.denied_tools
      /\ q.prompt = _grant_admits(w.prompt, h) \ d.denied_tools
  BY DEF build_policy
<1>4. p.permitted \subseteq q.permitted
  BY <1>1, <1>2, <1>3 DEF _grant_admits, NarrowerConfig
<1>5. p.permitted \cap q.prompt \subseteq p.prompt
  BY <1>1, <1>2, <1>3 DEF _grant_admits
<1>6. NarrowerRules(p.bash, q.bash, command)
  <2>1. /\ p.bash = build_policy(a, [denied_tools |-> {}, bash_deny |-> c.bash_deny], {}).bash
        /\ q.bash = build_policy(b, [denied_tools |-> {}, bash_deny |-> d.bash_deny], {}).bash
    BY DEF build_policy
  <2>. QED  BY <2>1, RulesNarrow DEF NarrowerConfig
<1>. QED  BY <1>3, <1>4, <1>5, <1>6 DEF NarrowerPolicy

\* Authority only shrinks: whatever the call, the mode, the configuration and the
\* grant, narrowing any of them turns no answer of the gate into a wider one
\* (PermissionGate.check over build_policy).
THEOREM AuthorityOnlyShrinks ==
    ASSUME NEW a, NEW b, NarrowerMode(a, b), NEW c, NEW d, NarrowerConfig(c, d), NEW g, NEW h, g \subseteq h,
           NEW tool, NEW command \in Commands, NEW approver
    PROVE  Width[check(build_policy(a, c, g), tool, command, approver)]
              <= Width[check(build_policy(b, d, h), tool, command, approver)]
<1>1. PICK p : p = build_policy(a, c, g)
  OBVIOUS
<1>2. PICK q : q = build_policy(b, d, h)
  OBVIOUS
<1>3. NarrowerPolicy(p, q, command)
  BY <1>1, <1>2, PoliciesNarrow
<1>4. NoWider(check(p, tool, command, approver), check(q, tool, command, approver))
  BY <1>3, GateIsMonotone
<1>. QED  BY <1>1, <1>2, <1>4, WidthOfAnswers

\* What the configuration denies is denied, in every mode and under every grant.
THEOREM DeniedIsDenied ==
    ASSUME NEW m, NEW c, NEW g, NEW tool, NEW command, NEW approver,
           \/ tool \in c.denied_tools /\ tool \notin _TERMINATOR_TOOLS
           \/ tool = "bash" /\ KeyIn(command, c.bash_deny)
    PROVE  check(build_policy(m, c, g), tool, command, approver) = "deny"
<1>1. PICK p : p = build_policy(m, c, g)
  OBVIOUS
<1>2. tool \in c.denied_tools => tool \notin p.permitted
  BY <1>1 DEF build_policy
<1>3. KeyIn(command, c.bash_deny) => KeyIn(command, p.bash.deny)
  BY <1>1 DEF build_policy, KeyIn
<1>4. CASE tool \in c.denied_tools /\ tool \notin _TERMINATOR_TOOLS
  BY <1>1, <1>2, <1>4 DEF check
<1>5. CASE tool = "bash" /\ KeyIn(command, c.bash_deny)
  <2>1. _check_bash(p, command, approver) = "deny"
    BY <1>3, <1>5 DEF _check_bash, tier_bash_command
  <2>. QED  BY <1>1, <1>5, <2>1 DEF check, _TERMINATOR_TOOLS
<1>. QED  BY <1>4, <1>5

\* The gate as the runs check it, clamping included (delegation.py, min_mode).
THEOREM ClampingBounds ==
    ASSUME NEW tool \in Tools, NEW command \in Commands, NEW approver
    PROVE  AuthorityShrinks(tool, command, approver)
<1>. DEFINE W(md, c, g) == Width[check(build_policy(md, c, g), tool, command, approver)]
            Full == Tools \cup {"mcp:s:*"}
<1>1. ASSUME NEW m \in Modes, NEW n \in Modes
      PROVE  NarrowerMode(min_mode(m, n), m) /\ NarrowerMode(min_mode(m, n), n) /\ NarrowerMode(m, m)
  BY ModesInOrder DEF NarrowerMode, min_mode, Modes
<1>2. ASSUME NEW cfg \in Configs
      PROVE  /\ NarrowerConfig(cfg, cfg) /\ NarrowerConfig(cfg, NoConfig)
             /\ cfg.denied_tools \cap _TERMINATOR_TOOLS = {}
  BY DEF Configs, NarrowerConfig, NoConfig, _TERMINATOR_TOOLS
<1>3. \A grant \in Grants : grant \subseteq Full /\ grant \subseteq grant
  BY DEF Grants, Tools, _ALL_TOOLS, McpTools, _READ_TOOLS, WRITE_TOOLS
<1>4. ASSUME NEW m \in Modes, NEW n \in Modes, NEW cfg \in Configs, NEW grant \in Grants
      PROVE  /\ W(min_mode(m, n), cfg, grant) <= W(m, cfg, grant)
             /\ W(min_mode(m, n), cfg, grant) <= W(n, cfg, grant)
             /\ W(m, cfg, grant) <= W(m, NoConfig, grant)
             /\ W(m, cfg, grant) <= W(m, cfg, Full)
  <2>. HIDE DEF Full
  <2>. QED  BY <1>1, <1>2, <1>3, AuthorityOnlyShrinks
<1>5. ASSUME NEW m \in Modes, NEW cfg \in Configs, NEW grant \in Grants,
             tool \in cfg.denied_tools \/ (tool = "bash" /\ KeyIn(command, cfg.bash_deny))
      PROVE  W(m, cfg, grant) = 0
  <2>1. check(build_policy(m, cfg, grant), tool, command, approver) = "deny"
    BY <1>2, <1>5, DeniedIsDenied
  <2>. QED  BY <2>1 DEF Width
<1>6. \A m, n \in Modes, cfg \in Configs, grant \in Grants :
          /\ W(min_mode(m, n), cfg, grant) <= W(m, cfg, grant)
          /\ W(min_mode(m, n), cfg, grant) <= W(n, cfg, grant)
          /\ W(m, cfg, grant) <= W(m, NoConfig, grant)
          /\ W(m, cfg, grant) <= W(m, cfg, Full)
          /\ tool \in cfg.denied_tools => W(m, cfg, grant) = 0
          /\ tool = "bash" /\ KeyIn(command, cfg.bash_deny) => W(m, cfg, grant) = 0
  <2>. HIDE DEF W, Full
  <2>. QED  BY <1>4, <1>5
<1>. QED  BY <1>6, Zenon DEF AuthorityShrinks

-----------------------------------------------------------------------------
(* The telemetry of a delegation.  Rows come in the order of the engines;   *)
(* the observer's open row is the row of the engine at work, and it stays   *)
(* uncharged until the delegation has returned.                             *)

Ended == {"succeeded", "failed", "needs_user_input", "raised"}
AtWork == {"delegate"} \cup Ended
EngineStates == [pc : {"idle", "over", "killed"} \cup AtWork, n : 0..MaxEngines, id : Nat, tools : Nat]
Rows == [agent : SessionEngines, status : {"running"} \cup Ended, cost : 0..2]

TelemetryTypeOK ==
    /\ invocations \in Seq(Rows)
    /\ skillCalls \in Seq([inv : Nat, by : SessionEngines])
    /\ observer \in Nat
    /\ engine \in EngineStates
    /\ lost \in BOOLEAN
    /\ spent \in [SessionEngines -> 0..2]

\* One row an engine, in order, and none of an engine that is still to come.
RowsInOrder ==
    /\ \A i, j \in DOMAIN invocations : i < j => invocations[i].agent < invocations[j].agent
    /\ \A i \in DOMAIN invocations : invocations[i].agent <= engine.n
    /\ \A i \in DOMAIN invocations : invocations[i].cost <= spent[invocations[i].agent]

CallsOfTheirEngine ==
    \A k \in DOMAIN skillCalls :
        /\ skillCalls[k].inv \in DOMAIN invocations
        /\ invocations[skillCalls[k].inv].agent = skillCalls[k].by

\* The engine at work, its row if it has one, and what is yet to be spent.
OpenRow ==
    /\ engine.pc \in AtWork => engine.n # 0
    /\ engine.pc \in AtWork /\ engine.id # NoId =>
          /\ engine.id = Len(invocations)
          /\ invocations[engine.id].agent = engine.n
    /\ engine.pc = "delegate" => observer = engine.id
    /\ engine.pc \in {"delegate", "raised"} => spent[engine.n] = 0
    /\ \A e \in SessionEngines : e > engine.n => spent[e] = 0

\* Where no write failed, every engine has its row, settled once it is not at work.
NothingMissing ==
    ~lost /\ engine.pc # "killed" =>
        /\ Len(invocations) = engine.n
        /\ engine.pc \in AtWork => engine.id # NoId
        /\ \A i \in DOMAIN invocations : engine.pc \notin AtWork \/ i < engine.n =>
              /\ invocations[i].status # "running"
              /\ invocations[i].cost = spent[invocations[i].agent]

TelemetryInv ==
    TelemetryTypeOK /\ RowsInOrder /\ CallsOfTheirEngine /\ OpenRow /\ NothingMissing

\* What the types say, in the terms the steps below use.
LEMMA TelemetryFacts ==
    ASSUME TelemetryInv
    PROVE  /\ invocations \in Seq(Rows) /\ Len(invocations) \in Nat
           /\ DOMAIN invocations = 1..Len(invocations)
           /\ \A i \in DOMAIN invocations :
                 /\ invocations[i] \in Rows /\ invocations[i].agent \in SessionEngines
                 /\ invocations[i].cost \in Int
           /\ engine \in EngineStates /\ engine.n \in Nat /\ engine.n <= MaxEngines
           /\ engine.id \in Nat /\ engine.tools \in Nat
           /\ \A e \in SessionEngines : spent[e] \in 0..2 /\ spent[e] \in Int
           /\ SessionEngines \subseteq Int
           /\ engine.pc \in AtWork => engine.n \in SessionEngines
<1>1. invocations \in Seq(Rows) /\ engine \in EngineStates /\ spent \in [SessionEngines -> 0..2]
  BY DEF TelemetryInv, TelemetryTypeOK
<1>2. /\ Len(invocations) \in Nat /\ DOMAIN invocations = 1..Len(invocations)
      /\ \A i \in DOMAIN invocations : invocations[i] \in Rows
  BY <1>1
<1>3. \A row \in Rows : row.agent \in SessionEngines /\ row.cost \in Int
  BY DEF Rows
<1>4. /\ engine.n \in Nat /\ engine.n <= MaxEngines /\ engine.id \in Nat /\ engine.tools \in Nat
  BY <1>1, TelemetryAssumption DEF EngineStates
<1>5. /\ \A e \in SessionEngines : spent[e] \in 0..2 /\ spent[e] \in Int
      /\ SessionEngines \subseteq Int
  BY <1>1 DEF SessionEngines
<1>6. engine.pc \in AtWork => engine.n \in SessionEngines
  BY <1>4, TelemetryAssumption DEF TelemetryInv, OpenRow, SessionEngines
<1>. QED  BY <1>1, <1>2, <1>3, <1>4, <1>5, <1>6

LEMMA TelemetryStarts == TelemetryInit => TelemetryInv
<1>. SUFFICES ASSUME TelemetryInit PROVE TelemetryInv
  OBVIOUS
<1>1. /\ invocations = << >> /\ skillCalls = << >> /\ observer = 0 /\ lost = FALSE
      /\ engine = [pc |-> "idle", n |-> 0, id |-> 0, tools |-> 0]
      /\ spent = [e \in SessionEngines |-> 0]
  BY DEF TelemetryInit, NoId
<1>2. TelemetryTypeOK
  <2>1. engine \in EngineStates
    BY <1>1, TelemetryAssumption DEF EngineStates
  <2>2. spent \in [SessionEngines -> 0..2] /\ observer \in Nat
    BY <1>1
  <2>3. lost \in BOOLEAN
    BY <1>1, Zenon
  <2>4. invocations \in Seq(Rows) /\ skillCalls \in Seq([inv : Nat, by : SessionEngines])
    BY <1>1
  <2>. QED  BY <2>1, <2>2, <2>3, <2>4 DEF TelemetryTypeOK
<1>3. RowsInOrder /\ CallsOfTheirEngine
  BY <1>1 DEF RowsInOrder, CallsOfTheirEngine
<1>4. OpenRow /\ NothingMissing
  BY <1>1 DEF OpenRow, NothingMissing, AtWork, Ended
<1>. QED  BY <1>2, <1>3, <1>4 DEF TelemetryInv

LEMMA BeginKeeps ==
    ASSUME TelemetryInv, begin_invocation
    PROVE  TelemetryInv'
<1>. USE TelemetryFacts
<1>1. /\ engine.pc = "idle" /\ engine.n < MaxEngines /\ UNCHANGED <<skillCalls, spent>>
      /\ engine' = [pc |-> "delegate", n |-> engine.n + 1, id |-> observer', tools |-> 0]
  BY DEF begin_invocation
<1>2. observer' \in Nat
  BY DEF begin_invocation, NoId
<1>3. /\ engine' \in EngineStates /\ engine'.pc = "delegate" /\ engine'.n = engine.n + 1
      /\ engine'.id = observer' /\ engine.n + 1 \in SessionEngines
  <2>1. engine.n + 1 \in SessionEngines /\ engine.n + 1 \in 0..MaxEngines
    BY <1>1, TelemetryAssumption DEF SessionEngines
  <2>. QED  BY <1>1, <1>2, <2>1 DEF EngineStates, AtWork
<1>4. /\ spent'[engine'.n] = 0
      /\ \A e \in SessionEngines : e > engine'.n => spent'[e] = 0
  BY <1>1, <1>3 DEF TelemetryInv, OpenRow
<1>5. "delegate" \in AtWork /\ "idle" \notin AtWork
  BY DEF AtWork, Ended
<1>6. CASE open_invocation(engine.n + 1) /\ observer' = Len(invocations) + 1 /\ UNCHANGED lost
  <2>1. PICK row : row = [agent |-> engine.n + 1, status |-> "running", cost |-> 0]
    OBVIOUS
  <2>2. row \in Rows /\ row.agent = engine.n + 1 /\ row.cost = 0
    BY <1>3, <2>1 DEF Rows
  <2>3. invocations' = Append(invocations, row)
    BY <1>6, <2>1 DEF open_invocation
  <2>4. /\ invocations' \in Seq(Rows)
        /\ Len(invocations') = Len(invocations) + 1
        /\ DOMAIN invocations' = 1..(Len(invocations) + 1)
        /\ \A i \in DOMAIN invocations : invocations'[i] = invocations[i]
        /\ invocations'[Len(invocations) + 1] = row
    BY <2>2, <2>3
  <2>5. TelemetryTypeOK'
    BY <1>1, <1>2, <1>3, <1>6, <2>4 DEF TelemetryInv, TelemetryTypeOK
  <2>6. RowsInOrder'
    <3>1. \A i \in DOMAIN invocations' :
              \/ i \in DOMAIN invocations /\ invocations'[i] = invocations[i]
              \/ i = Len(invocations) + 1 /\ invocations'[i] = row
      BY <2>4
    <3>2. \A i \in DOMAIN invocations : invocations[i].agent < engine.n + 1
      BY DEF TelemetryInv, RowsInOrder, SessionEngines
    <3>3. \A i, j \in DOMAIN invocations' : i < j => invocations'[i].agent < invocations'[j].agent
      BY <2>2, <2>4, <3>1, <3>2 DEF TelemetryInv, RowsInOrder
    <3>4. \A i \in DOMAIN invocations' : invocations'[i].agent <= engine'.n
      BY <1>3, <2>2, <3>1, <3>2 DEF SessionEngines
    <3>5. \A i \in DOMAIN invocations' : invocations'[i].cost <= spent'[invocations'[i].agent]
      BY <1>1, <1>3, <1>4, <2>2, <3>1 DEF TelemetryInv, RowsInOrder
    <3>. QED  BY <3>3, <3>4, <3>5 DEF RowsInOrder
  <2>7. CallsOfTheirEngine'
    <3>1. \A k \in DOMAIN skillCalls : skillCalls[k].inv \in DOMAIN invocations
      BY DEF TelemetryInv, CallsOfTheirEngine
    <3>2. DOMAIN invocations \subseteq DOMAIN invocations'
      BY <2>4
    <3>3. \A k \in DOMAIN skillCalls : invocations'[skillCalls[k].inv] = invocations[skillCalls[k].inv]
      BY <2>4, <3>1
    <3>. QED  BY <1>1, <3>1, <3>2, <3>3 DEF TelemetryInv, CallsOfTheirEngine
  <2>8. OpenRow'
    BY <1>3, <1>4, <1>6, <2>2, <2>4 DEF OpenRow
  <2>9. NothingMissing'
    <3>. SUFFICES ASSUME ~lost' PROVE NothingMissing'
      BY DEF NothingMissing
    <3>1. /\ Len(invocations) = engine.n
          /\ \A i \in DOMAIN invocations : /\ invocations[i].status # "running"
                                          /\ invocations[i].cost = spent[invocations[i].agent]
      BY <1>1, <1>5, <1>6 DEF TelemetryInv, NothingMissing
    <3>2. Len(invocations') = engine'.n /\ engine'.id # NoId
      BY <1>3, <1>6, <2>4, <3>1 DEF NoId
    <3>3. \A i \in DOMAIN invocations' : i < engine'.n => i \in DOMAIN invocations
      BY <2>4, <3>1, <3>2
    <3>. QED  BY <1>1, <1>3, <1>5, <2>4, <3>1, <3>2, <3>3 DEF NothingMissing
  <2>. QED  BY <2>5, <2>6, <2>7, <2>8, <2>9 DEF TelemetryInv
<1>7. CASE observer' = NoId /\ lost' = TRUE /\ UNCHANGED invocations
  <2>1. TelemetryTypeOK'
    BY <1>1, <1>2, <1>3, <1>7 DEF TelemetryInv, TelemetryTypeOK
  <2>2. RowsInOrder' /\ CallsOfTheirEngine'
    BY <1>1, <1>3, <1>7 DEF TelemetryInv, RowsInOrder, CallsOfTheirEngine
  <2>3. OpenRow'
    BY <1>3, <1>4, <1>7 DEF OpenRow, NoId, AtWork
  <2>4. NothingMissing'
    BY <1>7 DEF NothingMissing
  <2>. QED  BY <2>1, <2>2, <2>3, <2>4 DEF TelemetryInv
<1>. QED  BY <1>6, <1>7 DEF begin_invocation

LEMMA ToolResultKeeps ==
    ASSUME TelemetryInv, on_tool_result
    PROVE  TelemetryInv'
<1>. USE TelemetryFacts
<1>1. /\ engine.pc = "delegate" /\ UNCHANGED <<invocations, observer, spent>>
      /\ engine' = [engine EXCEPT !.tools = engine.tools + 1]
      /\ (observer # NoId /\ record_skill_call /\ UNCHANGED lost) \/ (lost' = TRUE /\ UNCHANGED skillCalls)
  BY DEF on_tool_result
<1>2. /\ engine' \in EngineStates /\ engine'.pc = engine.pc /\ engine'.n = engine.n
      /\ engine'.id = engine.id
  <2>1. engine.tools + 1 \in Nat
    OBVIOUS
  <2>. QED  BY <1>1, <2>1 DEF EngineStates
<1>3. RowsInOrder'
  BY <1>1, <1>2 DEF TelemetryInv, RowsInOrder
<1>4. OpenRow'
  BY <1>1, <1>2 DEF TelemetryInv, OpenRow
<1>5. NothingMissing'
  BY <1>1, <1>2 DEF TelemetryInv, NothingMissing
<1>6. skillCalls' \in Seq([inv : Nat, by : SessionEngines]) /\ CallsOfTheirEngine' /\ lost' \in BOOLEAN
  <2>1. CASE observer # NoId /\ record_skill_call /\ UNCHANGED lost
    <3>1. PICK call : call = [inv |-> observer, by |-> engine.n]
      OBVIOUS
    <3>2. observer = Len(invocations) /\ observer \in DOMAIN invocations
          /\ invocations[observer].agent = engine.n /\ observer \in Nat
          /\ engine.n \in SessionEngines
      BY <1>1, <2>1 DEF TelemetryInv, OpenRow, NoId, AtWork
    <3>3. /\ call \in [inv : Nat, by : SessionEngines]
          /\ call.inv \in DOMAIN invocations /\ invocations[call.inv].agent = call.by
      BY <3>1, <3>2
    <3>4. skillCalls' = Append(skillCalls, call)
      BY <2>1, <3>1 DEF record_skill_call
    <3>5. skillCalls \in Seq([inv : Nat, by : SessionEngines]) /\ lost \in BOOLEAN
      BY DEF TelemetryInv, TelemetryTypeOK
    <3>6. /\ skillCalls' \in Seq([inv : Nat, by : SessionEngines])
          /\ \A k \in DOMAIN skillCalls' :
                \/ skillCalls'[k] = call
                \/ k \in DOMAIN skillCalls /\ skillCalls'[k] = skillCalls[k]
      BY <3>3, <3>4, <3>5
    <3>. QED  BY <1>1, <2>1, <3>3, <3>5, <3>6 DEF TelemetryInv, CallsOfTheirEngine
  <2>2. CASE lost' = TRUE /\ UNCHANGED skillCalls
    BY <1>1, <2>2 DEF TelemetryInv, TelemetryTypeOK, CallsOfTheirEngine
  <2>. QED  BY <1>1, <2>1, <2>2
<1>7. TelemetryTypeOK'
  BY <1>1, <1>2, <1>6 DEF TelemetryInv, TelemetryTypeOK
<1>. QED  BY <1>3, <1>4, <1>5, <1>6, <1>7 DEF TelemetryInv

LEMMA DelegateKeeps ==
    ASSUME TelemetryInv, DelegateReturns \/ RaisesInDelegate \/ KillSession
    PROVE  TelemetryInv'
<1>. USE TelemetryFacts
<1>1. CASE DelegateReturns
  <2>1. PICK cost \in 1..2, status \in {"succeeded", "failed", "needs_user_input"} :
            /\ spent' = [spent EXCEPT ![engine.n] = cost]
            /\ engine' = [engine EXCEPT !.pc = status]
    BY <1>1 DEF DelegateReturns
  <2>2. /\ UNCHANGED <<invocations, skillCalls, observer, lost>>
        /\ engine.pc = "delegate" /\ engine.pc \in AtWork /\ engine.n \in SessionEngines
        /\ status \in AtWork /\ status # "raised" /\ status # "delegate" /\ status # "killed"
    BY <1>1 DEF DelegateReturns, AtWork, Ended
  <2>3. /\ engine'.pc = status /\ engine'.n = engine.n /\ engine'.id = engine.id
        /\ engine' \in EngineStates
    BY <2>1, <2>2 DEF EngineStates
  <2>4. spent \in [SessionEngines -> 0..2] /\ cost \in 0..2 /\ spent[engine.n] = 0
    BY <2>2 DEF TelemetryInv, TelemetryTypeOK, OpenRow
  <2>5. /\ spent' \in [SessionEngines -> 0..2]
        /\ \A e \in SessionEngines : e # engine.n => spent'[e] = spent[e]
        /\ \A e \in SessionEngines : spent[e] <= spent'[e] /\ spent'[e] \in Int
    BY <2>1, <2>2, <2>4
  <2>6. TelemetryTypeOK' /\ CallsOfTheirEngine'
    BY <2>2, <2>3, <2>5 DEF TelemetryInv, TelemetryTypeOK, CallsOfTheirEngine
  <2>7. RowsInOrder'
    <3>1. \A i \in DOMAIN invocations : invocations[i].cost <= spent[invocations[i].agent]
      BY DEF TelemetryInv, RowsInOrder
    <3>2. \A i \in DOMAIN invocations : invocations[i].cost <= spent'[invocations[i].agent]
      BY <2>5, <3>1
    <3>. QED  BY <2>2, <2>3, <3>2 DEF TelemetryInv, RowsInOrder
  <2>8. OpenRow'
    BY <2>2, <2>3, <2>5 DEF TelemetryInv, OpenRow
  <2>9. NothingMissing'
    <3>1. ~lost => Len(invocations) = engine.n /\ engine.id # NoId /\ engine.id = Len(invocations)
                   /\ invocations[engine.id].agent = engine.n
      BY <2>2 DEF TelemetryInv, NothingMissing, OpenRow
    <3>2. ~lost => \A i \in DOMAIN invocations : i < engine.n =>
              /\ invocations[i].status # "running"
              /\ invocations[i].cost = spent[invocations[i].agent]
              /\ invocations[i].agent < engine.n
      BY <2>2, <3>1 DEF TelemetryInv, NothingMissing, RowsInOrder
    <3>. QED  BY <2>2, <2>3, <2>5, <3>1, <3>2 DEF NothingMissing
  <2>. QED  BY <2>6, <2>7, <2>8, <2>9 DEF TelemetryInv
<1>2. CASE RaisesInDelegate \/ KillSession
  <2>1. PICK pc \in {"raised", "killed"} : engine' = [engine EXCEPT !.pc = pc]
    BY <1>2 DEF RaisesInDelegate, KillSession
  <2>2. /\ UNCHANGED <<invocations, skillCalls, observer, lost, spent>>
        /\ pc = "raised" => engine.pc = "delegate"
    BY <1>2, <2>1 DEF RaisesInDelegate, KillSession, EngineStates
  <2>3. /\ engine'.pc = pc /\ engine'.n = engine.n /\ engine'.id = engine.id
        /\ engine' \in EngineStates
    BY <2>1 DEF EngineStates, AtWork, Ended
  <2>4. TelemetryTypeOK' /\ CallsOfTheirEngine' /\ RowsInOrder'
    BY <2>2, <2>3 DEF TelemetryInv, TelemetryTypeOK, CallsOfTheirEngine, RowsInOrder
  <2>5. OpenRow'
    BY <2>1, <2>2, <2>3 DEF TelemetryInv, OpenRow, AtWork, Ended
  <2>6. NothingMissing'
    BY <2>1, <2>2, <2>3 DEF TelemetryInv, NothingMissing, AtWork, Ended
  <2>. QED  BY <2>4, <2>5, <2>6 DEF TelemetryInv
<1>. QED  BY <1>1, <1>2

LEMMA EndInvocationKeeps ==
    ASSUME TelemetryInv, end_invocation
    PROVE  TelemetryInv'
<1>. USE TelemetryFacts
<1>1. /\ engine.pc \in Ended /\ engine.pc \in AtWork /\ engine.n \in SessionEngines
      /\ UNCHANGED <<skillCalls, spent>>
      /\ engine' = [engine EXCEPT !.pc = IF engine.pc = "raised" THEN "over" ELSE "idle"]
      /\ observer' = IF observer = engine.id THEN NoId ELSE observer
  BY DEF end_invocation, Ended, AtWork
<1>2. /\ engine'.pc \in {"idle", "over"} /\ engine'.n = engine.n /\ engine'.id = engine.id
      /\ engine' \in EngineStates
  <2>1. PICK pc \in {"idle", "over"} : engine' = [engine EXCEPT !.pc = pc]
    BY <1>1
  <2>. QED  BY <2>1 DEF EngineStates
<1>3. OpenRow'
  <2>1. engine'.pc \notin AtWork /\ engine'.pc \notin {"delegate", "raised"}
    BY <1>2 DEF AtWork, Ended
  <2>. QED  BY <1>1, <1>2, <2>1 DEF TelemetryInv, OpenRow
<1>4. observer' \in Nat
  BY <1>1 DEF TelemetryInv, TelemetryTypeOK, NoId
<1>5. CASE /\ engine.id # NoId /\ UNCHANGED lost
           /\ finalize_invocation(IF engine.pc = "raised" THEN "failed" ELSE engine.pc)
  <2>1. PICK status : status = IF engine.pc = "raised" THEN "failed" ELSE engine.pc
    OBVIOUS
  <2>2. PICK cost : cost = IF engine.pc = "raised" THEN 0 ELSE spent[engine.n]
    OBVIOUS
  <2>3. status \in Ended /\ status # "running"
    BY <1>1, <2>1 DEF Ended
  <2>4. cost = spent[engine.n] /\ cost \in 0..2
    BY <1>1, <2>2 DEF TelemetryInv, OpenRow
  <2>5. /\ engine.id = Len(invocations) /\ engine.id \in DOMAIN invocations
        /\ invocations[engine.id].agent = engine.n
    BY <1>1, <1>5 DEF TelemetryInv, OpenRow, NoId
  <2>6. invocations' = [invocations EXCEPT ![engine.id].status = status, ![engine.id].cost = cost]
    BY <1>5, <2>1, <2>2 DEF finalize_invocation
  <2>7. PICK row : row = [invocations[engine.id] EXCEPT !.status = status, !.cost = cost]
    OBVIOUS
  <2>8. row \in Rows /\ row.agent = engine.n /\ row.cost = cost /\ row.status = status
    <3>1. invocations[engine.id] \in Rows
      BY <2>5
    <3>. QED  BY <2>3, <2>4, <2>5, <2>7, <3>1 DEF Rows
  <2>9. invocations' = [invocations EXCEPT ![engine.id] = row]
    <3>1. PICK T : T = [invocations EXCEPT ![engine.id].status = status]
      OBVIOUS
    <3>2. invocations' = [T EXCEPT ![engine.id].cost = cost]
      BY <2>6, <3>1
    <3>. QED  BY <2>5, <2>7, <3>1, <3>2
  <2>10. /\ invocations' \in Seq(Rows)
         /\ Len(invocations') = Len(invocations) /\ DOMAIN invocations' = DOMAIN invocations
         /\ \A i \in DOMAIN invocations : i # engine.id => invocations'[i] = invocations[i]
         /\ invocations'[engine.id] = row
    BY <2>5, <2>8, <2>9
  <2>11. \A i \in DOMAIN invocations : invocations'[i].agent = invocations[i].agent
    BY <2>5, <2>8, <2>10
  <2>12. TelemetryTypeOK' /\ CallsOfTheirEngine'
    BY <1>1, <1>2, <1>4, <1>5, <2>10, <2>11 DEF TelemetryInv, TelemetryTypeOK, CallsOfTheirEngine
  <2>13. RowsInOrder'
    <3>1. /\ \A i, j \in DOMAIN invocations' : i < j => invocations'[i].agent < invocations'[j].agent
          /\ \A i \in DOMAIN invocations' : invocations'[i].agent <= engine'.n
      BY <1>2, <2>10, <2>11 DEF TelemetryInv, RowsInOrder
    <3>2. \A i \in DOMAIN invocations : i # engine.id => invocations'[i].cost <= spent[invocations'[i].agent]
      BY <2>10 DEF TelemetryInv, RowsInOrder
    <3>3. invocations'[engine.id].cost <= spent[invocations'[engine.id].agent]
      BY <2>4, <2>8, <2>10
    <3>. QED  BY <1>1, <2>10, <3>1, <3>2, <3>3 DEF RowsInOrder
  <2>14. NothingMissing'
    <3>1. ~lost => Len(invocations) = engine.n /\ engine.id = engine.n
      BY <1>1, <2>5 DEF TelemetryInv, NothingMissing, Ended
    <3>2. ~lost => \A i \in DOMAIN invocations : i # engine.id =>
              invocations[i].status # "running" /\ invocations[i].cost = spent[invocations[i].agent]
      BY <1>1, <2>5, <3>1 DEF TelemetryInv, NothingMissing, Ended
    <3>3. ~lost => \A i \in DOMAIN invocations :
              invocations'[i].status # "running" /\ invocations'[i].cost = spent[invocations'[i].agent]
      BY <2>3, <2>4, <2>8, <2>10, <3>2
    <3>4. engine'.pc \notin AtWork
      BY <1>2 DEF AtWork, Ended
    <3>. QED  BY <1>1, <1>2, <1>5, <2>10, <3>1, <3>3, <3>4 DEF NothingMissing
  <2>. QED  BY <1>3, <2>12, <2>13, <2>14 DEF TelemetryInv
<1>6. CASE lost' = TRUE /\ UNCHANGED invocations
  <2>1. TelemetryTypeOK'
    BY <1>1, <1>2, <1>4, <1>6 DEF TelemetryInv, TelemetryTypeOK
  <2>2. RowsInOrder' /\ CallsOfTheirEngine'
    BY <1>1, <1>2, <1>6 DEF TelemetryInv, RowsInOrder, CallsOfTheirEngine
  <2>3. NothingMissing'
    BY <1>6 DEF NothingMissing
  <2>. QED  BY <1>3, <2>1, <2>2, <2>3 DEF TelemetryInv
<1>. QED  BY <1>5, <1>6 DEF end_invocation

LEMMA TelemetryInvariant == TelemetrySpec => []TelemetryInv
<1>1. TelemetryInv /\ [TelemetryNext]_telemetryVars => TelemetryInv'
  <2>1. CASE UNCHANGED telemetryVars
    <3>1. /\ invocations' = invocations /\ skillCalls' = skillCalls /\ observer' = observer
          /\ engine' = engine /\ lost' = lost /\ spent' = spent
      BY <2>1 DEF telemetryVars
    <3>2. TelemetryInv => TelemetryTypeOK' /\ RowsInOrder'
      BY <3>1 DEF TelemetryInv, TelemetryTypeOK, RowsInOrder
    <3>3. TelemetryInv => CallsOfTheirEngine' /\ OpenRow' /\ NothingMissing'
      BY <3>1 DEF TelemetryInv, CallsOfTheirEngine, OpenRow, NothingMissing
    <3>. QED  BY <3>2, <3>3 DEF TelemetryInv
  <2>. QED  BY <2>1, BeginKeeps, ToolResultKeeps, DelegateKeeps, EndInvocationKeeps DEF TelemetryNext
<1>. QED  BY <1>1, TelemetryStarts, PTL DEF TelemetrySpec

LEMMA RowsOfTelemetry == TelemetryInv => RowsTrue
<1>. SUFFICES ASSUME TelemetryInv PROVE RowsTrue
  OBVIOUS
<1>1. \A i, j \in DOMAIN invocations : invocations[i].agent = invocations[j].agent => i = j
  BY TelemetryFacts DEF TelemetryInv, RowsInOrder
<1>2. engine.pc \in {"idle", "over"} => engine.pc \notin AtWork /\ engine.pc # "killed"
  BY DEF AtWork, Ended
<1>. QED  BY <1>1, <1>2 DEF TelemetryInv, RowsInOrder, CallsOfTheirEngine, NothingMissing, RowsTrue

\* Whichever telemetry writes fail and however the session ends, the rows of a
\* delegation are what happened (recording.py RecordingObserver).
THEOREM TelemetryIsTrue == TelemetrySpec => []RowsTrue
  BY TelemetryInvariant, RowsOfTelemetry, PTL

\* What is added up: the cost of an engine's row, and that of all rows.
LEMMA AgentCost ==
    ASSUME TelemetryInv, NEW e \in SessionEngines
    PROVE  agents(e).cost_usd <= spent[e]
<1>. DEFINE S == {i \in DOMAIN invocations : invocations[i].agent = e}
            rule(g) == g = [s \in SUBSET S |-> IF s = {} THEN 0
                                ELSE invocations[CHOOSE x \in s : TRUE].cost + g[s \ {CHOOSE x \in s : TRUE}]]
            R == CHOOSE g : rule(g)
<1>1. PICK f : f = [i \in S |-> invocations[i].cost]
  OBVIOUS
<1>2. IsFiniteSet(S) /\ f \in [S -> Nat]
  <2>1. IsFiniteSet(DOMAIN invocations)
    <3>1. 1 \in Int /\ Len(invocations) \in Int
      BY TelemetryFacts
    <3>2. IsFiniteSet(1..Len(invocations))
      BY <3>1, FS_Interval
    <3>. QED  BY <3>2, TelemetryFacts
  <2>2. \A i \in DOMAIN invocations : invocations[i].cost \in Nat
    <3>1. \A row \in Rows : row.cost \in Nat
      BY DEF Rows
    <3>. QED  BY <3>1, TelemetryFacts
  <2>. QED  BY <1>1, <2>1, <2>2, FS_Subset
<1>3. PICK g \in [SUBSET S -> Nat] : SumRule(g, S, f)
  BY <1>2, SumExists
<1>4. rule(g)
  <2>1. g = [s \in SUBSET S |-> g[s]]
    OBVIOUS
  <2>2. \A s \in SUBSET S : s # {} => f[Pick(s)] = invocations[Pick(s)].cost
    <3>. HIDE DEF S
    <3>. QED  BY <1>1, PickIn
  <2>3. \A s \in SUBSET S : g[s] = IF s = {} THEN 0 ELSE invocations[Pick(s)].cost + g[s \ {Pick(s)}]
    BY <1>3, <2>2 DEF SumRule
  <2>. HIDE DEF S
  <2>. QED  BY <2>1, <2>3 DEF Pick
<1>5. rule(R)
  <2>. HIDE DEF rule
  <2>. QED  BY <1>4, Zenon
<1>6. agents(e).cost_usd = R[S]
  BY DEF agents, MapThenSumSet, MapThenFoldSet
<1>. HIDE DEF R
<1>7. \A s \in SUBSET S : R[s] = IF s = {} THEN 0 ELSE invocations[Pick(s)].cost + R[s \ {Pick(s)}]
  BY <1>5 DEF Pick
<1>8. CASE S = {}
  <2>1. R[S] = 0 /\ spent[e] \in 0..2
    <3>. HIDE DEF S
    <3>. QED  BY <1>7, <1>8, TelemetryFacts
  <2>. QED  BY <1>6, <2>1
<1>9. CASE S # {}
  <2>1. \A i, j \in DOMAIN invocations : invocations[i].agent = invocations[j].agent => i = j
    BY TelemetryFacts DEF TelemetryInv, RowsInOrder
  <2>2. Pick(S) \in S
    BY <1>9, PickIn
  <2>3. S \ {Pick(S)} = {}
    BY <2>1, <2>2
  <2>4. R[S] = invocations[Pick(S)].cost + 0
    BY <1>7, <1>9, <2>3
  <2>5. /\ invocations[Pick(S)].cost \in Int /\ invocations[Pick(S)].cost <= spent[e]
    BY <2>2, TelemetryFacts DEF TelemetryInv, RowsInOrder
  <2>. QED  BY <1>6, <2>4, <2>5
<1>. QED  BY <1>8, <1>9

\* Where no write failed, row i is of the i-th engine and holds what it cost.
LEMMA RowsAtRest ==
    ASSUME TelemetryInv, engine.pc \in {"idle", "over"}, ~lost
    PROVE  /\ Len(invocations) = engine.n /\ engine.n \in 0..MaxEngines
           /\ \A i \in 1..engine.n : invocations[i].cost = spent[i]
           /\ \A e \in 1..MaxEngines : e > engine.n => spent[e] = 0
<1>. DEFINE n == engine.n
            agent(i) == invocations[i].agent
<1>1. n \in Nat /\ n <= MaxEngines /\ MaxEngines \in Nat /\ Len(invocations) = n /\ DOMAIN invocations = 1..n
  <2>1. engine.pc # "killed"
    OBVIOUS
  <2>. QED  BY <2>1, TelemetryFacts, TelemetryAssumption DEF TelemetryInv, NothingMissing
<1>2. \A i \in 1..n : agent(i) \in Nat /\ 1 <= agent(i) /\ agent(i) <= n
  BY <1>1, TelemetryFacts DEF TelemetryInv, RowsInOrder, SessionEngines
<1>3. \A i \in 1..n : \A j \in 1..n : i < j => agent(i) < agent(j)
  BY <1>1 DEF TelemetryInv, RowsInOrder
<1>. HIDE DEF n, agent
<1>4. \A i \in 1..n : i <= agent(i)
  <2>. DEFINE Good == {i \in 0..n : i > 0 => i <= agent(i)}
  <2>1. 0 \in Good
    BY <1>1
  <2>2. ASSUME NEW i \in 1..n, i - 1 \in Good PROVE i \in Good
    <3>1. CASE i = 1
      BY <1>2, <3>1
    <3>2. CASE i > 1
      <4>1. i - 1 \in 1..n /\ i - 1 <= agent(i - 1)
        BY <1>1, <2>2, <3>2
      <4>2. agent(i - 1) < agent(i) /\ agent(i - 1) \in Nat /\ agent(i) \in Nat
        BY <1>2, <1>3, <4>1
      <4>. QED  BY <1>1, <4>1, <4>2
    <3>. QED  BY <1>1, <3>1, <3>2
  <2>. HIDE DEF Good
  <2>3. \A i \in 0..n : i \in Good
    BY <1>1, <2>1, <2>2, UpTo
  <2>. QED  BY <1>1, <2>3 DEF Good
<1>5. \A i \in 1..n : agent(i) <= i
  <2>. DEFINE Good == {k \in 0..n : k < n => agent(n - k) <= n - k}
  <2>1. 0 \in Good
    BY <1>1, <1>2
  <2>2. ASSUME NEW k \in 1..n, k - 1 \in Good PROVE k \in Good
    <3>. SUFFICES ASSUME k < n PROVE agent(n - k) <= n - k
      BY <1>1
    <3>1. n - k \in 1..n /\ n - (k - 1) \in 1..n /\ n - k < n - (k - 1) /\ k - 1 < n
      BY <1>1
    <3>2. agent(n - k) < agent(n - (k - 1)) /\ agent(n - k) \in Nat /\ agent(n - (k - 1)) \in Nat
      BY <1>2, <1>3, <3>1
    <3>3. agent(n - (k - 1)) <= n - (k - 1)
      BY <2>2, <3>1
    <3>. QED  BY <1>1, <3>1, <3>2, <3>3
  <2>. HIDE DEF Good
  <2>3. \A k \in 0..n : k \in Good
    BY <1>1, <2>1, <2>2, UpTo
  <2>4. ASSUME NEW i \in 1..n PROVE agent(i) <= i
    <3>1. n - i \in 0..n /\ n - i < n /\ n - (n - i) = i
      BY <1>1
    <3>2. agent(n - (n - i)) <= n - (n - i)
      BY <2>3, <3>1 DEF Good
    <3>. QED  BY <3>1, <3>2
  <2>. QED  BY <2>4
<1>6. \A i \in 1..n : agent(i) = i
  BY <1>1, <1>2, <1>4, <1>5
<1>7. \A i \in 1..n : invocations[i].cost = spent[agent(i)]
  <2>1. engine.pc \notin AtWork /\ engine.pc # "killed"
    BY DEF AtWork, Ended
  <2>. QED  BY <1>1, <2>1 DEF TelemetryInv, NothingMissing, agent
<1>8. \A e \in 1..MaxEngines : e > n => spent[e] = 0
  BY DEF TelemetryInv, OpenRow, SessionEngines, n
<1>. QED  BY <1>1, <1>6, <1>7, <1>8 DEF n

LEMMA AllCosts ==
    ASSUME TelemetryInv, engine.pc \in {"idle", "over"}, ~lost
    PROVE  costs.cost_usd = MapThenSumSet(LAMBDA e : spent[e], SessionEngines)
<1>. DEFINE n == engine.n
            S == DOMAIN invocations
            rule(g) == g = [s \in SUBSET S |-> IF s = {} THEN 0
                                ELSE invocations[CHOOSE x \in s : TRUE].cost + g[s \ {CHOOSE x \in s : TRUE}]]
            R == CHOOSE g : rule(g)
            E == SessionEngines
            ruleE(g) == g = [s \in SUBSET E |-> IF s = {} THEN 0
                                ELSE spent[CHOOSE x \in s : TRUE] + g[s \ {CHOOSE x \in s : TRUE}]]
            Q == CHOOSE g : ruleE(g)
<1>1. PICK f : f = [e \in SessionEngines |-> spent[e]]
  OBVIOUS
<1>2. /\ MaxEngines \in Nat /\ n \in 0..MaxEngines /\ S = 1..n /\ SessionEngines = 1..MaxEngines
      /\ f \in [1..MaxEngines -> Nat] /\ f \in [SessionEngines -> Nat]
      /\ \A i \in 1..n : invocations[i].cost = spent[i]
      /\ \A e \in 1..MaxEngines : e > n => f[e] = 0
  BY <1>1, TelemetryAssumption, RowsAtRest, TelemetryFacts DEF SessionEngines
<1>3. PICK C : Additive(C, MaxEngines, f)
  BY <1>2, AdditiveExists
<1>4. /\ IsFiniteSet(1..n) /\ IsFiniteSet(1..MaxEngines)
      /\ 1..n \in SUBSET (1..MaxEngines) /\ 1..MaxEngines \in SUBSET (1..MaxEngines)
  <2>1. 1 \in Int /\ n \in Int /\ MaxEngines \in Int
    BY <1>2
  <2>. HIDE DEF n
  <2>2. IsFiniteSet(1..n) /\ IsFiniteSet(1..MaxEngines)
    BY <2>1, FS_Interval
  <2>. QED  BY <1>2, <2>2
<1>5. R[S] = C[1..n]
  <2>0. PICK fr : fr = [i \in S |-> f[i]]
    OBVIOUS
  <2>1. IsFiniteSet(S) /\ fr \in [S -> Nat]
    BY <1>2, <1>4, <2>0
  <2>2. PICK g \in [SUBSET S -> Nat] : SumRule(g, S, fr)
    <3>. HIDE DEF S
    <3>. QED  BY <2>1, SumExists
  <2>3. \A s \in SUBSET S : s # {} =>
            Pick(s) \in S /\ invocations[Pick(s)].cost = f[Pick(s)] /\ fr[Pick(s)] = f[Pick(s)]
    <3>1. \A s \in SUBSET S : s # {} => Pick(s) \in S
      <4>. HIDE DEF S
      <4>. QED  BY PickIn
    <3>2. \A i \in S : invocations[i].cost = f[i] /\ fr[i] = f[i]
      BY <1>1, <1>2, <2>0
    <3>. HIDE DEF S
    <3>. QED  BY <3>1, <3>2
  <2>4. rule(g)
    <3>1. g = [s \in SUBSET S |-> g[s]]
      OBVIOUS
    <3>2. \A s \in SUBSET S : g[s] = IF s = {} THEN 0 ELSE invocations[Pick(s)].cost + g[s \ {Pick(s)}]
      BY <2>2, <2>3 DEF SumRule
    <3>. HIDE DEF S
    <3>. QED  BY <3>1, <3>2 DEF Pick
  <2>5. rule(R)
    <3>. HIDE DEF rule
    <3>. QED  BY <2>4, Zenon
  <2>. HIDE DEF R
  <2>6. \A s \in SUBSET S : R[s] = IF s = {} THEN 0 ELSE invocations[Pick(s)].cost + R[s \ {Pick(s)}]
    BY <2>5 DEF Pick
  <2>7. SumRule(R, S, f)
    <3>. HIDE DEF S
    <3>. QED  BY <2>3, <2>6 DEF SumRule
  <2>8. S \in SUBSET (1..MaxEngines)
    BY <1>2, <1>4
  <2>. HIDE DEF S
  <2>9. R[S] = C[S]
    BY <1>2, <1>3, <2>7, <2>8, SumsAgree
  <2>. QED  BY <1>2, <2>9
<1>6. Q[E] = C[1..MaxEngines]
  <2>1. IsFiniteSet(E) /\ f \in [E -> Nat]
    BY <1>2, <1>4
  <2>2. PICK g \in [SUBSET E -> Nat] : SumRule(g, E, f)
    BY <2>1, SumExists
  <2>3. \A s \in SUBSET E : s # {} => f[Pick(s)] = spent[Pick(s)]
    BY <1>1, PickIn
  <2>4. ruleE(g)
    <3>1. g = [s \in SUBSET E |-> g[s]]
      OBVIOUS
    <3>2. \A s \in SUBSET E : g[s] = IF s = {} THEN 0 ELSE spent[Pick(s)] + g[s \ {Pick(s)}]
      BY <2>2, <2>3 DEF SumRule
    <3>. QED  BY <3>1, <3>2 DEF Pick
  <2>5. ruleE(Q)
    <3>. HIDE DEF ruleE
    <3>. QED  BY <2>4, Zenon
  <2>. HIDE DEF Q
  <2>6. \A s \in SUBSET E : Q[s] = IF s = {} THEN 0 ELSE spent[Pick(s)] + Q[s \ {Pick(s)}]
    BY <2>5 DEF Pick
  <2>7. SumRule(Q, E, f)
    BY <2>3, <2>6 DEF SumRule
  <2>8. E = 1..MaxEngines
    BY <1>2
  <2>. HIDE DEF E
  <2>9. Q[E] = C[E]
    BY <1>2, <1>3, <1>4, <2>7, <2>8, SumsAgree
  <2>. QED  BY <2>8, <2>9
<1>7. C[1..MaxEngines] = C[1..n]
  <2>. HIDE DEF n
  <2>. QED  BY <1>2, <1>3, RestIsNothing
<1>8. costs.cost_usd = R[S]
  BY DEF costs, FoldSeq, FoldFunction, FoldFunctionOnSet, MapThenFoldSet
<1>9. MapThenSumSet(LAMBDA e : spent[e], SessionEngines) = Q[E]
  BY DEF MapThenSumSet, MapThenFoldSet
<1>. HIDE DEF n, S, R, Q, E
<1>. QED  BY <1>5, <1>6, <1>7, <1>8, <1>9

\* What carve metrics reports of a delegation is what happened and what it cost
\* (core/observability/rollups.py MetricsRollups).
THEOREM MetricsAreTrue == TelemetrySpec => []MetricsTrue
<1>1. TelemetryInv => SumsTrue
  BY AgentCost, AllCosts DEF SumsTrue
<1>2. TelemetryInv => RowsTrue
  BY RowsOfTelemetry
<1>3. TelemetryInv => MetricsTrue
  BY <1>1, <1>2 DEF MetricsTrue
<1>. QED  BY <1>3, TelemetryInvariant, PTL

-----------------------------------------------------------------------------
(* The graph of a pipeline.  An order of the steps that respects what they  *)
(* depend on exists if and only if none of them is blocked.                 *)

LEMMA OrderIs ==
    ASSUME NEW dep \in [Steps -> SUBSET Nat], NEW q \in Orders(dep)
    PROVE  /\ q \in Seq(Steps) /\ Len(q) = N /\ q \in [Steps -> Steps]
           /\ \A s \in Steps : \E i \in Steps : q[i] = s
           /\ \A i, j \in Steps : q[i] = q[j] => i = j
           /\ \A i \in Steps : \A u \in dep[q[i]] : u \in Steps => \E j \in Steps : j < i /\ q[j] = u
<1>1. /\ q \in [Steps -> Steps] /\ {q[i] : i \in 1..Len(q)} = Steps
      /\ \A t \in Steps : \A s \in dep[t] : \E i, j \in 1..Len(q) : i < j /\ q[i] = s /\ q[j] = t
  BY DEF Orders, Elements, IsTopological, Before
<1>2. N \in Nat /\ Steps = 1..N
  BY StepsFinite DEF Steps
<1>3. q \in Seq(Steps) /\ Len(q) = N
  <2>1. PICK T : T = Steps
    OBVIOUS
  <2>2. q \in [1..N -> T]
    BY <1>1, <1>2, <2>1
  <2>3. q \in Seq(T)
    BY <1>2, <2>2, SeqDef
  <2>4. Len(q) = N
    BY <1>2, <2>2, <2>3, LenProperties
  <2>. QED  BY <2>1, <2>3, <2>4
<1>4. \A s \in Steps : \E i \in Steps : q[i] = s
  BY <1>1, <1>2, <1>3
<1>5. \A i, j \in Steps : q[i] = q[j] => i = j
  <2>1. q \in Surjection(Steps, Steps)
    BY <1>1, <1>4 DEF Surjection
  <2>2. q \in Injection(Steps, Steps)
    BY <2>1, StepsFinite, FS_SurjSameCardinalityImpliesInj
  <2>. QED  BY <2>2 DEF Injection, IsInjective
<1>6. ASSUME NEW i \in Steps, NEW u \in dep[q[i]], u \in Steps PROVE \E j \in Steps : j < i /\ q[j] = u
  <2>1. q[i] \in Steps
    BY <1>1
  <2>2. PICK j, k \in 1..Len(q) : j < k /\ q[j] = u /\ q[k] = q[i]
    BY <1>1, <2>1
  <2>3. k = i
    BY <1>2, <1>3, <1>5, <2>2
  <2>. QED  BY <1>2, <1>3, <2>2, <2>3
<1>. QED  BY <1>1, <1>3, <1>4, <1>5, <1>6

LEMMA OrderedIsFree ==
    ASSUME NEW dep \in [Steps -> SUBSET Steps], NEW q \in Orders(dep),
           NEW Cyclic \in SUBSET Steps, Blocked(dep, Cyclic)
    PROVE  Cyclic = {}
<1>. SUFFICES ASSUME Cyclic # {} PROVE FALSE
  OBVIOUS
<1>1. dep \in [Steps -> SUBSET Nat] /\ Steps \subseteq Nat
  BY StepsFinite DEF Steps
<1>2. /\ \A s \in Steps : \E i \in Steps : q[i] = s
      /\ \A i \in Steps : \A u \in dep[q[i]] : u \in Steps => \E j \in Steps : j < i /\ q[j] = u
  <2>1. \A s \in Steps : \E i \in Steps : q[i] = s
    BY <1>1, OrderIs
  <2>2. \A i \in Steps : \A u \in dep[q[i]] : u \in Steps => \E j \in Steps : j < i /\ q[j] = u
    BY <1>1, OrderIs
  <2>. QED  BY <2>1, <2>2
<1>3. PICK At : At = {i \in Steps : q[i] \in Cyclic}
  OBVIOUS
<1>4. At \in SUBSET Nat /\ At # {}
  BY <1>1, <1>2, <1>3
<1>5. PICK i \in At : \A j \in At : i <= j
  BY <1>4, LeastNumber
<1>6. PICK u \in dep[q[i]] : u \in Cyclic
  BY <1>3 DEF Blocked
<1>7. PICK j \in Steps : j < i /\ q[j] = u
  BY <1>2, <1>3, <1>6
<1>8. j \in At /\ i \in Nat /\ j \in Nat
  BY <1>1, <1>3, <1>6, <1>7
<1>. QED  BY <1>5, <1>7, <1>8

\* The order that is computed is one, and of all the first in declaration order.
LEMMA ComputedOrder ==
    ASSUME NEW dep \in [Steps -> SUBSET Steps], _validate_no_cycles(dep),
           NEW ord, ord = _compute_topological_order(dep)
    PROVE  ord \in Orders(dep) /\ \A r \in Orders(dep) : r = ord \/ Precedes(ord, r)
<1>0. N \in Nat /\ Steps = 1..N /\ Steps \subseteq Nat /\ Cardinality(Steps) = N
  BY StepsFinite DEF Steps
<1>1. /\ ord \in Seq(Steps) /\ Elements(ord) = Steps
      /\ \A i \in 1..Len(ord) : dep[ord[i]] \subseteq {ord[j] : j \in 1..(i - 1)}
  BY ValidatedOrder DEF Contract
<1>2. Cardinality(Elements(ord)) = Len(ord) /\ FirstInLine(dep, ord)
  BY OrderRespects
<1>3. Len(ord) = N /\ ord \in [Steps -> Steps]
  BY <1>0, <1>1, <1>2
<1>4. ASSUME NEW t \in Steps, NEW s \in dep[t] PROVE Before(ord, s, t)
  <2>1. PICK j \in 1..Len(ord) : ord[j] = t
    BY <1>1 DEF Elements
  <2>2. PICK i \in 1..(j - 1) : ord[i] = s
    BY <1>1, <2>1
  <2>3. i \in 1..Len(ord) /\ i < j
    BY <1>0, <1>3
  <2>. QED  BY <2>1, <2>2, <2>3 DEF Before
<1>5. ord \in Orders(dep)
  BY <1>1, <1>3, <1>4 DEF Orders, IsTopological
<1>6. ASSUME NEW r \in Orders(dep), r # ord PROVE Precedes(ord, r)
  <2>0. dep \in [Steps -> SUBSET Nat]
    BY <1>0
  <2>1. /\ r \in [Steps -> Steps] /\ \A i, j \in Steps : r[i] = r[j] => i = j
        /\ \A i \in Steps : \A u \in dep[r[i]] : u \in Steps => \E j \in Steps : j < i /\ r[j] = u
    BY <2>0, OrderIs
  <2>2. PICK Differ : Differ = {i \in Steps : r[i] # ord[i]}
    OBVIOUS
  <2>3. Differ \in SUBSET Nat /\ Differ # {}
    <3>1. r = [i \in Steps |-> r[i]] /\ ord = [i \in Steps |-> ord[i]]
      BY <1>3, <2>1
    <3>2. \E i \in Steps : r[i] # ord[i]
      BY <1>6, <3>1
    <3>. QED  BY <1>0, <2>2, <3>2
  <2>4. PICK i \in Differ : \A j \in Differ : i <= j
    BY <2>3, LeastNumber
  <2>5. i \in Steps /\ i \in Nat /\ r[i] # ord[i]
    BY <1>0, <2>2
  <2>6. \A j \in 1..(i - 1) : j \in Steps /\ j < i /\ r[j] = ord[j]
    <3>1. \A j \in 1..(i - 1) : j \in Steps /\ j < i /\ ~(i <= j)
      BY <1>0, <2>5
    <3>. QED  BY <2>2, <2>4, <3>1
  <2>7. PICK t : t = r[i]
    OBVIOUS
  <2>8. t \in Steps /\ t \notin {ord[j] : j \in 1..(i - 1)}
    BY <2>1, <2>5, <2>6, <2>7
  <2>9. dep[t] \subseteq {ord[j] : j \in 1..(i - 1)}
    <3>. SUFFICES ASSUME NEW u \in dep[t] PROVE \E j \in 1..(i - 1) : u = ord[j]
      OBVIOUS
    <3>1. PICK j \in Steps : j < i /\ r[j] = u
      BY <2>1, <2>5, <2>7, <2>8
    <3>2. j \in 1..(i - 1)
      BY <1>0, <2>5, <3>1
    <3>. QED  BY <2>6, <3>1, <3>2
  <2>10. ord[i] <= t
    BY <1>0, <1>2, <1>3, <2>5, <2>8, <2>9 DEF FirstInLine
  <2>11. ord[i] < r[i]
    <3>1. ord[i] \in Nat /\ r[i] \in Nat
      BY <1>0, <1>3, <2>1, <2>5
    <3>. QED  BY <2>5, <2>7, <2>10, <3>1
  <2>12. \A j \in 1..i - 1 : ord[j] = r[j]
    BY <2>6
  <2>. QED  BY <2>5, <2>11, <2>12 DEF Precedes
<1>. QED  BY <1>5, <1>6

\* The steps downstream of a step are the fewest that hold what depends on it and on
\* one another, and where there is an order the step is not among them.
LEMMA DownstreamIsLeast ==
    ASSUME NEW dep \in [Steps -> SUBSET Steps], NEW s \in Steps
    PROVE  /\ downstream_of(dep, s) \in SUBSET Steps /\ Closed(dep, downstream_of(dep, s), s)
           /\ \A C \in SUBSET Steps : Closed(dep, C, s) => downstream_of(dep, s) \subseteq C
<1>1. PICK D : D = downstream_of(dep, s)
  OBVIOUS
<1>2. /\ D \in SUBSET Steps /\ dependents(dep, s) \subseteq D
      /\ \A t \in D : dependents(dep, t) \subseteq D
  BY <1>1, DownstreamClosed
<1>3. Closed(dep, D, s)
  BY <1>2 DEF Closed, dependents
<1>4. ASSUME NEW C \in SUBSET Steps, Closed(dep, C, s) PROVE D \subseteq C
  <2>1. PICK R \in [0..N -> SUBSET Steps] :
            /\ downstream_of(dep, s) = R[N] /\ R[0] = dependents(dep, s)
            /\ \A n \in 1..N : R[n] = R[n - 1] \cup UNION {dependents(dep, t) : t \in R[n - 1]}
    BY Frontier
  <2>2. dependents(dep, s) \subseteq C /\ \A t \in C : dependents(dep, t) \subseteq C
    BY <1>4 DEF Closed, dependents
  <2>. DEFINE Good == {n \in 0..N : R[n] \subseteq C}
  <2>3. 0 \in Good
    BY <2>1, <2>2, StepsFinite
  <2>4. ASSUME NEW n \in 1..N, n - 1 \in Good PROVE n \in Good
    <3>1. R[n] = R[n - 1] \cup UNION {dependents(dep, t) : t \in R[n - 1]} /\ R[n - 1] \subseteq C
      BY <2>1, <2>4
    <3>2. R[n] \subseteq C
      BY <2>2, <3>1
    <3>. QED  BY <3>2
  <2>. HIDE DEF Good
  <2>5. N \in Nat /\ N \in 0..N
    BY StepsFinite
  <2>6. N \in Good
    BY <2>3, <2>4, <2>5, UpTo
  <2>. QED  BY <1>1, <2>1, <2>6 DEF Good
<1>. QED  BY <1>1, <1>2, <1>3, <1>4

LEMMA NotDownstream ==
    ASSUME NEW dep \in [Steps -> SUBSET Steps], NEW q \in Orders(dep), NEW s \in Steps
    PROVE  s \notin downstream_of(dep, s)
<1>0. dep \in [Steps -> SUBSET Nat] /\ Steps \subseteq Nat
  BY StepsFinite DEF Steps
<1>1. /\ q \in [Steps -> Steps] /\ \A t \in Steps : \E i \in Steps : q[i] = t
      /\ \A i, j \in Steps : q[i] = q[j] => i = j
      /\ \A i \in Steps : \A u \in dep[q[i]] : u \in Steps => \E j \in Steps : j < i /\ q[j] = u
  <2>4. q \in [Steps -> Steps]
    BY <1>0, OrderIs
  <2>5. \A t \in Steps : \E i \in Steps : q[i] = t
    BY <1>0, OrderIs
  <2>2. \A i, j \in Steps : q[i] = q[j] => i = j
    BY <1>0, OrderIs
  <2>3. \A i \in Steps : \A u \in dep[q[i]] : u \in Steps => \E j \in Steps : j < i /\ q[j] = u
    BY <1>0, OrderIs
  <2>. QED  BY <2>2, <2>3, <2>4, <2>5
<1>2. PICK i \in Steps : q[i] = s
  BY <1>1
<1>3. PICK C : C = {t \in Steps : \E j \in Steps : i < j /\ q[j] = t}
  OBVIOUS
<1>4. s \notin C
  BY <1>0, <1>1, <1>2, <1>3
<1>5. ASSUME NEW t \in Steps, dep[t] \cap (C \cup {s}) # {} PROVE t \in C
  <2>1. PICK u \in dep[t] : u \in C \cup {s}
    BY <1>5
  <2>2. PICK k \in Steps : q[k] = t
    BY <1>1
  <2>3. PICK j \in Steps : j < k /\ q[j] = u
    BY <1>1, <2>1, <2>2
  <2>4. i <= j
    <3>1. CASE u = s
      BY <1>0, <1>1, <1>2, <2>3, <3>1
    <3>2. CASE u # s
      <4>1. PICK m \in Steps : i < m /\ q[m] = u
        BY <1>3, <2>1, <3>2
      <4>2. m = j
        BY <1>1, <2>3, <4>1
      <4>. QED  BY <1>0, <4>1, <4>2
    <3>. QED  BY <3>1, <3>2
  <2>5. i < k
    BY <1>0, <2>3, <2>4
  <2>. QED  BY <1>3, <2>2, <2>5
<1>6. downstream_of(dep, s) \subseteq C
  BY <1>3, <1>5, DownstreamIsLeast DEF Closed
<1>. QED  BY <1>4, <1>6

\* What the constructor of PipelineDAG accepts, what it computes and what a failure
\* takes along, for every graph (pipeline_dag.py).
THEOREM DagIsExact ==
    ASSUME NEW dep \in [Steps -> SUBSET Nat]
    PROVE  /\ _validate_no_cycles(dep) <=> (\A s \in Steps : dep[s] \subseteq Steps) /\ Orders(dep) # {}
           /\ _validate_no_cycles(dep) =>
                 LET ord == _compute_topological_order(dep)
                 IN  /\ ord \in Orders(dep) /\ \A r \in Orders(dep) : r = ord \/ Precedes(ord, r)
                     /\ \A s \in Steps :
                           LET D == downstream_of(dep, s)
                           IN  /\ Closed(dep, D, s) /\ s \notin D
                               /\ \A C \in SUBSET Steps : Closed(dep, C, s) => D \subseteq C
<1>1. ASSUME _validate_no_cycles(dep)
      PROVE  dep \in [Steps -> SUBSET Steps] /\ \A s \in Steps : dep[s] \subseteq Steps
  <2>1. PICK U : U = {s \in Steps : dep[s] \ Steps # {}}
    OBVIOUS
  <2>2. Blocked(dep, U) /\ U \in SUBSET Steps
    BY <2>1 DEF Blocked
  <2>3. U = {}
    BY <1>1, <2>2, SearchFindsCycles
  <2>. QED  BY <2>1, <2>3
<1>2. ASSUME _validate_no_cycles(dep), NEW ord, ord = _compute_topological_order(dep)
      PROVE  /\ ord \in Orders(dep) /\ \A r \in Orders(dep) : r = ord \/ Precedes(ord, r)
             /\ \A s \in Steps :
                   /\ Closed(dep, downstream_of(dep, s), s) /\ s \notin downstream_of(dep, s)
                   /\ \A C \in SUBSET Steps : Closed(dep, C, s) => downstream_of(dep, s) \subseteq C
  <2>1. ord \in Orders(dep) /\ \A r \in Orders(dep) : r = ord \/ Precedes(ord, r)
    BY <1>1, <1>2, ComputedOrder
  <2>. QED  BY <1>1, <1>2, <2>1, DownstreamIsLeast, NotDownstream
<1>3. ASSUME \A s \in Steps : dep[s] \subseteq Steps, Orders(dep) # {}
      PROVE  _validate_no_cycles(dep)
  <2>1. dep \in [Steps -> SUBSET Steps]
    BY <1>3
  <2>. SUFFICES ASSUME ~_validate_no_cycles(dep) PROVE FALSE
    OBVIOUS
  <2>2. PICK Cyclic \in SUBSET Steps : Cyclic # {} /\ Blocked(dep, Cyclic)
    BY SearchIsRight
  <2>. QED  BY <1>3, <2>1, <2>2, OrderedIsFree
<1>. QED  BY <1>1, <1>2, <1>3
-----------------------------------------------------------------------------
(* The file of a pipeline: the recursive search for cycles of load_pipeline *)
(* by what one call of visit does to a state of the search.                 *)

Followed(v, x, e) ==
    IF e.raised THEN e
    ELSE IF e.state[x] = 1 THEN [e EXCEPT !.raised = TRUE]
    ELSE IF e.state[x] = 0 THEN v[<<x, e>>]
    ELSE e
AllFollowed(v, first, U) ==
    CHOOSE g : g = [s \in SUBSET U |-> IF s = {} THEN first ELSE Followed(v, Pick(s), g[s \ {Pick(s)}])]
Called(dep, v) ==
    [call \in (DOMAIN dep) \X Searches(DOMAIN dep) |->
        [AllFollowed(v, [call[2] EXCEPT !.state[call[1]] = 1], dep[call[1]])[dep[call[1]]]
            EXCEPT !.state[call[1]] = 2]]
Calls(dep) ==
    CHOOSE V : V = [n \in 0..Cardinality(DOMAIN dep) |->
                       [call \in (DOMAIN dep) \X Searches(DOMAIN dep) |->
                           IF n = 0 THEN call[2]
                           ELSE [AllFollowed(V[n - 1], [call[2] EXCEPT !.state[call[1]] = 1],
                                             dep[call[1]])[dep[call[1]]]
                                    EXCEPT !.state[call[1]] = 2]]]

LEMMA VisitIs == \A dep : visit(dep) = Calls(dep)[Cardinality(DOMAIN dep)]
  BY DEF visit, Calls, AllFollowed, Followed, Pick, FoldSet, MapThenFoldSet

Marked(e, S, k) == {s \in S : e.state[s] = k}
Mark(e, s, k) == [e EXCEPT !.state[s] = k]

LEMMA Marks ==
    ASSUME NEW S, NEW e \in Searches(S), NEW s \in S, NEW k \in 0..2
    PROVE  /\ Mark(e, s, k) \in Searches(S) /\ Mark(e, s, k).raised = e.raised
           /\ Marked(Mark(e, s, k), S, k) = Marked(e, S, k) \cup {s}
           /\ \A l \in 0..2 : l # k => Marked(Mark(e, s, k), S, l) = Marked(e, S, l) \ {s}
<1>1. e = [raised |-> e.raised, state |-> e.state] /\ e.raised \in BOOLEAN /\ e.state \in [S -> 0..2]
  BY DEF Searches
<1>2. PICK f : f = [e.state EXCEPT ![s] = k]
  OBVIOUS
<1>3. f \in [S -> 0..2] /\ f[s] = k /\ \A t \in S : t # s => f[t] = e.state[t]
  BY <1>1, <1>2
<1>4. Mark(e, s, k) = [raised |-> e.raised, state |-> f]
  BY <1>1, <1>2 DEF Mark
<1>5. Mark(e, s, k) \in Searches(S)
  BY <1>1, <1>3, <1>4 DEF Searches
<1>. QED  BY <1>3, <1>4, <1>5 DEF Marked

LEMMA Raises == ASSUME NEW S, NEW e \in Searches(S) PROVE [e EXCEPT !.raised = TRUE] \in Searches(S)
<1>1. PICK r, h : e = [raised |-> r, state |-> h] /\ r \in BOOLEAN /\ h \in [S -> 0..2]
  BY DEF Searches
<1>2. PICK g : g = [e EXCEPT !.raised = TRUE]
  OBVIOUS
<1>3. g = [raised |-> TRUE, state |-> h]
  BY <1>1, <1>2
<1>. QED  BY <1>1, <1>2, <1>3 DEF Searches

\* A call that is given a function v for the calls it makes.
FollowsRule(v, first, U, G) ==
    /\ G[{}] = first
    /\ \A s \in SUBSET U : s # {} => G[s] = Followed(v, Pick(s), G[s \ {Pick(s)}])
LEMMA Follows ==
    ASSUME NEW S, IsFiniteSet(S), NEW v \in [S \X Searches(S) -> Searches(S)],
           NEW first \in Searches(S), NEW U \in SUBSET S
    PROVE  /\ AllFollowed(v, first, U) \in [SUBSET U -> Searches(S)]
           /\ FollowsRule(v, first, U, AllFollowed(v, first, U))
<1>. DEFINE T == Searches(S)
            F == [p \in U \X T |-> Followed(v, p[1], p[2])]
            rule(g) == g = [s \in SUBSET U |-> IF s = {} THEN first
                                               ELSE Followed(v, Pick(s), g[s \ {Pick(s)}])]
            A == CHOOSE g : rule(g)
<1>1. ASSUME NEW x \in U, NEW e \in T PROVE Followed(v, x, e) \in T
  <2>3. [e EXCEPT !.raised = TRUE] \in T
    BY Raises
  <2>4. v[<<x, e>>] \in T
    OBVIOUS
  <2>. HIDE DEF T
  <2>. QED  BY <2>3, <2>4 DEF Followed
<1>2. IsFiniteSet(U) /\ F \in [U \X T -> T] /\ first \in T
  <2>1. F \in [U \X T -> T]
    <3>. HIDE DEF T
    <3>. QED  BY <1>1
  <2>. QED  BY <2>1, FS_Subset
<1>3. PICK g \in [SUBSET U -> T] : FoldRule(g, U, first, F)
  <2>. HIDE DEF F, T
  <2>. QED  BY <1>2, FoldExists
<1>4. \A s \in SUBSET U : s # {} => s \ {Pick(s)} \in SUBSET U /\ Pick(s) \in U
  BY PickIn
<1>5. \A s \in SUBSET U : s # {} => g[s] = Followed(v, Pick(s), g[s \ {Pick(s)}])
  <2>1. \A x \in U, e \in T : F[<<x, e>>] = Followed(v, x, e)
    <3>. HIDE DEF T
    <3>. QED  OBVIOUS
  <2>. HIDE DEF F, T
  <2>. QED  BY <1>3, <1>4, <2>1 DEF FoldRule
<1>6. rule(g)
  <2>1. g[{}] = first
    BY <1>3 DEF FoldRule
  <2>2. g = [s \in SUBSET U |-> g[s]]
    OBVIOUS
  <2>. QED  BY <1>5, <2>1, <2>2
<1>7. rule(A)
  <2>. HIDE DEF rule
  <2>. QED  BY <1>6, Zenon
<1>8. AllFollowed(v, first, U) = A
  BY DEF AllFollowed
<1>. HIDE DEF A
<1>9. A[{}] = first /\ \A s \in SUBSET U : s # {} => A[s] = Followed(v, Pick(s), A[s \ {Pick(s)}])
  BY <1>7
<1>10. A \in [SUBSET U -> T]
  <2>. DEFINE Good == {s \in SUBSET U : A[s] \in T}
  <2>1. {} \in Good
    BY <1>2, <1>9
  <2>2. \A s \in SUBSET U : s # {} /\ s \ {Pick(s)} \in Good => s \in Good
    BY <1>1, <1>4, <1>9
  <2>. HIDE DEF Good, T
  <2>3. \A s \in SUBSET U : s \in Good
    BY <1>2, <2>1, <2>2, SubsetsUpTo
  <2>4. \A s \in SUBSET U : A[s] \in T
    BY <2>3 DEF Good
  <2>5. A = [s \in SUBSET U |-> A[s]]
    BY <1>7
  <2>. QED  BY <2>4, <2>5
<1>11. FollowsRule(v, first, U, A)
  BY <1>9 DEF FollowsRule
<1>. QED  BY <1>8, <1>10, <1>11

Stuck(dep, S) == \E X \in SUBSET S : X # {} /\ \A t \in X : dep[t] \cap X # {}

\* What is done depends on what is done, and there is no cycle in it.
Settled(dep, S, e) ==
    /\ \A t \in Marked(e, S, 2) : dep[t] \subseteq Marked(e, S, 2)
    /\ \A X \in SUBSET Marked(e, S, 2) : X # {} => \E t \in X : dep[t] \cap X = {}

\* Where a call may be made: what is on the stack leads to it.
MayCall(dep, S, n, s, e) ==
    /\ e \in Searches(S) /\ ~e.raised /\ s \in Marked(e, S, 0)
    /\ Cardinality(Marked(e, S, 0)) <= n
    /\ Settled(dep, S, e)
    /\ \A g \in Marked(e, S, 1) : dep[g] \cap (Marked(e, S, 1) \cup {s}) # {}

\* How it returns: it raises only if there is a cycle.
Returns(dep, S, s, e, f) ==
    /\ f \in Searches(S)
    /\ f.raised => Stuck(dep, S)
    /\ ~f.raised => /\ Marked(f, S, 1) = Marked(e, S, 1) /\ Marked(f, S, 0) \subseteq Marked(e, S, 0)
                    /\ Marked(e, S, 2) \cup {s} \subseteq Marked(f, S, 2)
                    /\ Settled(dep, S, f)

\* Where the loop of a call at s, made in e, is once it has followed q.
Following(dep, S, s, e, q, f) ==
    /\ f \in Searches(S)
    /\ f.raised => Stuck(dep, S)
    /\ ~f.raised => /\ Marked(f, S, 1) = Marked(e, S, 1) \cup {s} /\ Marked(f, S, 0) \subseteq Marked(e, S, 0) \ {s}
                    /\ Marked(e, S, 2) \cup q \subseteq Marked(f, S, 2)
                    /\ Settled(dep, S, f)

LEMMA FollowsOne ==
    ASSUME NEW S, IsFiniteSet(S), NEW dep \in [S -> SUBSET S], NEW n \in Nat,
           NEW v, \A s \in S, e \in Searches(S) : MayCall(dep, S, n - 1, s, e) => Returns(dep, S, s, e, v[<<s, e>>]),
           NEW s \in S, NEW e \in Searches(S), MayCall(dep, S, n, s, e),
           NEW q \in SUBSET dep[s], NEW x \in dep[s], NEW f, Following(dep, S, s, e, q, f)
    PROVE  Following(dep, S, s, e, q \cup {x}, Followed(v, x, f))
<1>1. CASE f.raised
  BY <1>1 DEF Following, Followed
<1>2. CASE ~f.raised /\ f.state[x] = 1
  <2>1. PICK r, h : f = [raised |-> r, state |-> h] /\ r \in BOOLEAN /\ h \in [S -> 0..2]
    BY DEF Following, Searches
  <2>2. PICK g : g = [f EXCEPT !.raised = TRUE]
    OBVIOUS
  <2>3. g = [raised |-> TRUE, state |-> h]
    BY <2>1, <2>2
  <2>4. g \in Searches(S) /\ g.raised
    BY <2>1, <2>3 DEF Searches
  <2>5. Followed(v, x, f) = g
    BY <1>2, <2>2 DEF Followed
  <2>6. PICK X : X = Marked(f, S, 1)
    OBVIOUS
  <2>7. X = Marked(e, S, 1) \cup {s} /\ X \in SUBSET S /\ x \in X
    BY <1>2, <2>6 DEF Following, Marked
  <2>8. \A t \in X : dep[t] \cap X # {}
    BY <2>7 DEF MayCall
  <2>9. Stuck(dep, S)
    BY <2>7, <2>8 DEF Stuck
  <2>. QED  BY <2>4, <2>5, <2>9 DEF Following
<1>3. CASE ~f.raised /\ f.state[x] = 0
  <2>1. Followed(v, x, f) = v[<<x, f>>]
    BY <1>3 DEF Followed
  <2>2. /\ Marked(f, S, 1) = Marked(e, S, 1) \cup {s} /\ Marked(f, S, 0) \subseteq Marked(e, S, 0) \ {s}
        /\ Marked(e, S, 2) \cup q \subseteq Marked(f, S, 2)
        /\ Settled(dep, S, f) /\ f \in Searches(S)
    BY <1>3 DEF Following
  <2>3. x \in S /\ x \in Marked(f, S, 0)
    BY <1>3 DEF Marked
  <2>4. Cardinality(Marked(f, S, 0)) <= n - 1
    <3>1. PICK W : W = Marked(e, S, 0)
      OBVIOUS
    <3>2. W \in SUBSET S /\ s \in W /\ Cardinality(W) <= n
      BY <3>1 DEF MayCall, Marked
    <3>3. IsFiniteSet(W) /\ Cardinality(W) \in Nat
      BY <3>2, FS_Subset, FS_CardinalityType
    <3>4. Cardinality(W \ {s}) = Cardinality(W) - 1 /\ IsFiniteSet(W \ {s})
      BY <3>2, <3>3, FS_RemoveElement
    <3>5. PICK V : V = Marked(f, S, 0)
      OBVIOUS
    <3>6. V \in SUBSET (W \ {s})
      BY <2>2, <3>1, <3>5
    <3>7. Cardinality(V) <= Cardinality(W \ {s}) /\ Cardinality(V) \in Nat
      BY <3>4, <3>6, FS_Subset, FS_CardinalityType
    <3>. QED  BY <3>2, <3>3, <3>4, <3>5, <3>7
  <2>5. \A g \in Marked(f, S, 1) : dep[g] \cap (Marked(f, S, 1) \cup {x}) # {}
    BY <2>2 DEF MayCall
  <2>6. MayCall(dep, S, n - 1, x, f)
    BY <1>3, <2>2, <2>3, <2>4, <2>5 DEF MayCall
  <2>7. Returns(dep, S, x, f, v[<<x, f>>])
    BY <2>2, <2>3, <2>6
  <2>8. PICK g : g = v[<<x, f>>]
    OBVIOUS
  <2>9. Following(dep, S, s, e, q \cup {x}, g)
    BY <2>2, <2>7, <2>8 DEF Returns, Following
  <2>. QED  BY <2>1, <2>8, <2>9
<1>4. CASE ~f.raised /\ f.state[x] # 0 /\ f.state[x] # 1
  <2>1. Followed(v, x, f) = f
    BY <1>4 DEF Followed
  <2>2. f.state[x] = 2 /\ x \in S
    BY <1>4 DEF Following, Searches
  <2>3. x \in Marked(f, S, 2)
    BY <2>2 DEF Marked
  <2>. QED  BY <1>4, <2>1, <2>3 DEF Following
<1>. QED  BY <1>1, <1>2, <1>3, <1>4

LEMMA CallReturns ==
    ASSUME NEW S, IsFiniteSet(S), NEW dep \in [S -> SUBSET S], NEW n \in Nat,
           NEW v \in [S \X Searches(S) -> Searches(S)],
           \A s \in S, e \in Searches(S) : MayCall(dep, S, n - 1, s, e) => Returns(dep, S, s, e, v[<<s, e>>]),
           NEW s \in S, NEW e \in Searches(S), MayCall(dep, S, n, s, e)
    PROVE  Returns(dep, S, s, e, Called(dep, v)[<<s, e>>])
<1>1. PICK d, U : d = Mark(e, s, 1) /\ U = dep[s]
  OBVIOUS
<1>2. /\ d \in Searches(S) /\ d.raised = e.raised /\ U \in SUBSET S /\ IsFiniteSet(U)
      /\ Marked(d, S, 1) = Marked(e, S, 1) \cup {s}
      /\ Marked(d, S, 0) = Marked(e, S, 0) \ {s} /\ Marked(d, S, 2) = Marked(e, S, 2) \ {s}
  BY <1>1, Marks, FS_Subset
<1>3. s \notin Marked(e, S, 2) /\ s \notin Marked(e, S, 1) /\ ~e.raised /\ Settled(dep, S, e)
  BY DEF MayCall, Marked
<1>4. PICK G : G = AllFollowed(v, d, U)
  OBVIOUS
<1>5. /\ G[{}] = d
      /\ \A q \in SUBSET U : q # {} => G[q] = Followed(v, Pick(q), G[q \ {Pick(q)}])
  <2>1. FollowsRule(v, d, U, AllFollowed(v, d, U))
    BY <1>2, Follows
  <2>. QED  BY <1>4, <2>1 DEF FollowsRule
<1>. DEFINE Good == {q \in SUBSET U : Following(dep, S, s, e, q, G[q])}
<1>6. {} \in Good
  <2>1. Settled(dep, S, d)
    BY <1>2, <1>3 DEF Settled
  <2>. QED  BY <1>2, <1>3, <1>5, <2>1 DEF Following
<1>7. ASSUME NEW q \in SUBSET U, q # {}, q \ {Pick(q)} \in Good PROVE q \in Good
  <2>1. PICK x, r, f : x = Pick(q) /\ r = q \ {x} /\ f = G[r]
    OBVIOUS
  <2>2. x \in q /\ x \in dep[s] /\ r \in SUBSET dep[s] /\ r \cup {x} = q
    BY <1>1, <1>7, <2>1, PickIn
  <2>3. Following(dep, S, s, e, r, f)
    BY <1>7, <2>1
  <2>4. Following(dep, S, s, e, r \cup {x}, Followed(v, x, f))
    BY <2>2, <2>3, FollowsOne
  <2>5. G[q] = Followed(v, x, f)
    BY <1>5, <1>7, <2>1
  <2>. QED  BY <2>2, <2>4, <2>5
<1>. HIDE DEF Good
<1>8. U \in Good
  BY <1>2, <1>6, <1>7, SubsetsUpTo
<1>9. PICK a : a = G[U]
  OBVIOUS
<1>10. Following(dep, S, s, e, U, a)
  BY <1>8, <1>9 DEF Good
<1>11. PICK f : f = Mark(a, s, 2)
  OBVIOUS
<1>12. Called(dep, v)[<<s, e>>] = f
  BY <1>1, <1>4, <1>9, <1>11 DEF Called, Mark
<1>13. /\ f \in Searches(S) /\ f.raised = a.raised
       /\ Marked(f, S, 2) = Marked(a, S, 2) \cup {s}
       /\ Marked(f, S, 0) = Marked(a, S, 0) \ {s} /\ Marked(f, S, 1) = Marked(a, S, 1) \ {s}
  <2>1. a \in Searches(S)
    BY <1>10 DEF Following
  <2>. QED  BY <1>11, <2>1, Marks
<1>14. CASE a.raised
  BY <1>10, <1>12, <1>13, <1>14 DEF Following, Returns
<1>15. CASE ~a.raised
  <2>1. /\ Marked(a, S, 1) = Marked(e, S, 1) \cup {s} /\ Marked(a, S, 0) \subseteq Marked(e, S, 0) \ {s}
        /\ Marked(e, S, 2) \cup U \subseteq Marked(a, S, 2) /\ Settled(dep, S, a)
    BY <1>10, <1>15 DEF Following
  <2>2. s \notin Marked(a, S, 2)
    <3>1. s \in Marked(a, S, 1)
      BY <2>1
    <3>. QED  BY <3>1 DEF Marked
  <2>3. PICK B : B = Marked(a, S, 2)
    OBVIOUS
  <2>4. /\ \A t \in B : dep[t] \subseteq B
        /\ \A X \in SUBSET B : X # {} => \E t \in X : dep[t] \cap X = {}
        /\ s \notin B /\ dep[s] \subseteq B
    BY <1>1, <2>1, <2>2, <2>3 DEF Settled
  <2>5. ASSUME NEW X \in SUBSET (B \cup {s}), X # {} PROVE \E t \in X : dep[t] \cap X = {}
    <3>1. CASE X \subseteq B
      BY <2>4, <2>5, <3>1
    <3>2. CASE X = {s}
      BY <2>4, <3>2
    <3>3. CASE s \in X /\ X # {s}
      <4>1. X \ {s} \in SUBSET B /\ X \ {s} # {}
        BY <3>3
      <4>2. PICK t \in X \ {s} : dep[t] \cap (X \ {s}) = {}
        BY <2>4, <4>1
      <4>3. dep[t] \cap X = {}
        BY <2>4, <4>1, <4>2
      <4>. QED  BY <4>2, <4>3
    <3>. QED  BY <3>1, <3>2, <3>3
  <2>6. \A t \in B \cup {s} : dep[t] \subseteq B \cup {s}
    BY <2>4
  <2>7. Settled(dep, S, f)
    BY <1>13, <2>3, <2>5, <2>6 DEF Settled
  <2>8. Marked(f, S, 1) = Marked(e, S, 1)
    BY <1>3, <1>13, <2>1
  <2>. QED  BY <1>12, <1>13, <1>15, <2>1, <2>7, <2>8 DEF Returns
<1>. QED  BY <1>14, <1>15

LEMMA CalledIs ==
    ASSUME NEW S, IsFiniteSet(S), NEW dep \in [S -> SUBSET S], NEW v \in [S \X Searches(S) -> Searches(S)]
    PROVE  Called(dep, v) \in [S \X Searches(S) -> Searches(S)]
<1>1. ASSUME NEW s \in S, NEW e \in Searches(S)
      PROVE  Mark(AllFollowed(v, Mark(e, s, 1), dep[s])[dep[s]], s, 2) \in Searches(S)
  <2>1. PICK d, U : d = Mark(e, s, 1) /\ U = dep[s]
    OBVIOUS
  <2>2. d \in Searches(S) /\ U \in SUBSET S
    BY <2>1, Marks
  <2>3. AllFollowed(v, d, U) \in [SUBSET U -> Searches(S)]
    BY <2>2, Follows
  <2>4. PICK a : a = AllFollowed(v, d, U)[U]
    OBVIOUS
  <2>5. a \in Searches(S)
    BY <2>3, <2>4
  <2>6. Mark(a, s, 2) \in Searches(S)
    BY <2>5, Marks
  <2>. QED  BY <2>1, <2>4, <2>6
<1>2. Called(dep, v) = [call \in S \X Searches(S) |->
          Mark(AllFollowed(v, Mark(call[2], call[1], 1), dep[call[1]])[dep[call[1]]], call[1], 2)]
  BY DEF Called, Mark
<1>3. \A call \in S \X Searches(S) :
          Mark(AllFollowed(v, Mark(call[2], call[1], 1), dep[call[1]])[dep[call[1]]], call[1], 2) \in Searches(S)
  BY <1>1
<1>. QED  BY <1>2, <1>3

LEMMA CallsAre ==
    ASSUME NEW S, IsFiniteSet(S), NEW dep \in [S -> SUBSET S]
    PROVE  \A n \in 0..Cardinality(S) :
              /\ Calls(dep)[n] \in [S \X Searches(S) -> Searches(S)]
              /\ n # 0 => Calls(dep)[n] = Called(dep, Calls(dep)[n - 1])
<1>. DEFINE M == Cardinality(S)
            T == [S \X Searches(S) -> Searches(S)]
            first == [call \in S \X Searches(S) |-> call[2]]
            F == [p \in T \X (1..M) |-> Called(dep, p[1])]
            Step(n, w) == [call \in S \X Searches(S) |->
                              IF n = 0 THEN call[2]
                              ELSE [AllFollowed(w, [call[2] EXCEPT !.state[call[1]] = 1], dep[call[1]])[dep[call[1]]]
                                       EXCEPT !.state[call[1]] = 2]]
            rule(V) == V = [n \in 0..M |-> Step(n, V[n - 1])]
            R == CHOOSE V : rule(V)
<1>1. M \in Nat
  BY FS_CardinalityType
<1>2. first \in T
  OBVIOUS
<1>3. \A w \in T : Called(dep, w) \in T
  BY CalledIs
<1>4. F \in Advances(M, T)
  <2>. HIDE DEF T
  <2>. QED  BY <1>3 DEF Advances
<1>5. PICK f : IsRecursion(f, M, T, first, F)
  <2>. HIDE DEF T, F, first, M
  <2>. QED  BY <1>1, <1>2, <1>4, Recursion
<1>6. /\ f \in [0..M -> T] /\ f[0] = first
      /\ \A n \in 1..M : f[n] = F[<<f[n - 1], n>>]
  <2>. HIDE DEF T, F, first, M
  <2>. QED  BY <1>5 DEF IsRecursion
<1>7. \A w : Step(0, w) = first
  OBVIOUS
<1>8. \A w, n : n # 0 => Step(n, w) = Called(dep, w)
  BY DEF Called
<1>. HIDE DEF Step
<1>9. \A n \in 1..M : n # 0 /\ n - 1 \in 0..M /\ f[n - 1] \in T /\ f[n] = Called(dep, f[n - 1])
  <2>1. \A n \in 1..M : n # 0 /\ n - 1 \in 0..M
    BY <1>1
  <2>2. \A n \in 1..M, w \in T : F[<<w, n>>] = Called(dep, w)
    <3>. HIDE DEF T, M
    <3>. QED  OBVIOUS
  <2>. HIDE DEF T, F, M
  <2>. QED  BY <1>6, <2>1, <2>2
<1>10. rule(f)
  <2>1. \A n \in 0..M : f[n] = Step(n, f[n - 1])
    <3>1. \A n \in 0..M : n = 0 \/ n \in 1..M
      BY <1>1
    <3>. HIDE DEF T, M, first
    <3>. QED  BY <1>6, <1>7, <1>8, <1>9, <3>1
  <2>2. f = [n \in 0..M |-> f[n]]
    <3>. HIDE DEF T
    <3>. QED  BY <1>6
  <2>. HIDE DEF M
  <2>. QED  BY <2>1, <2>2
<1>11. rule(R)
  <2>. HIDE DEF rule
  <2>. QED  BY <1>10, Zenon
<1>12. R = Calls(dep)
  BY DEF Calls, Step
<1>. HIDE DEF R
<1>. DEFINE Good == {n \in 0..M : R[n] \in T}
<1>13. 0 \in Good
  <2>1. R[0] = Step(0, R[0 - 1]) /\ 0 \in 0..M
    <3>. HIDE DEF M
    <3>. QED  BY <1>1, <1>11
  <2>. QED  BY <1>2, <1>7, <2>1
<1>14. \A n \in 1..M : R[n] = Called(dep, R[n - 1]) /\ (n - 1 \in Good => n \in Good)
  <2>1. \A n \in 1..M : n \in 0..M /\ n # 0
    BY <1>1
  <2>2. \A n \in 1..M : R[n] = Called(dep, R[n - 1])
    <3>. HIDE DEF M
    <3>. QED  BY <1>8, <1>11, <2>1
  <2>. HIDE DEF T, M
  <2>. QED  BY <1>3, <2>1, <2>2
<1>15. \A n \in 0..M : n \in Good
  <2>. HIDE DEF Good, M
  <2>. QED  BY <1>1, <1>13, <1>14, UpTo
<1>16. \A n \in 0..M : n # 0 => n \in 1..M
  BY <1>1
<1>. QED  BY <1>12, <1>14, <1>15, <1>16 DEF Good

\* What a call of visit does, of any depth that n steps not seen allow.
LEMMA CallsReturn ==
    ASSUME NEW S, IsFiniteSet(S), NEW dep \in [S -> SUBSET S]
    PROVE  \A n \in 0..Cardinality(S), s \in S, e \in Searches(S) :
              MayCall(dep, S, n, s, e) => Returns(dep, S, s, e, Calls(dep)[n][<<s, e>>])
<1>1. PICK M, C : M = Cardinality(S) /\ C = Calls(dep)
  OBVIOUS
<1>2. /\ M \in Nat
      /\ \A n \in 0..M : C[n] \in [S \X Searches(S) -> Searches(S)]
      /\ \A n \in 1..M : n \in 0..M /\ n - 1 \in 0..M /\ n \in Nat /\ C[n] = Called(dep, C[n - 1])
  <2>1. M \in Nat
    BY <1>1, FS_CardinalityType
  <2>2. \A n \in 0..M : C[n] \in [S \X Searches(S) -> Searches(S)]
    BY <1>1, CallsAre
  <2>3. \A n \in 0..M : n # 0 => C[n] = Called(dep, C[n - 1])
    BY <1>1, CallsAre
  <2>4. \A n \in 1..M : n \in 0..M /\ n - 1 \in 0..M /\ n \in Nat /\ n # 0
    BY <2>1
  <2>. QED  BY <2>1, <2>2, <2>3, <2>4
<1>. DEFINE Answers(n) == \A s \in S, e \in Searches(S) :
                             MayCall(dep, S, n, s, e) => Returns(dep, S, s, e, C[n][<<s, e>>])
            Good == {n \in 0..M : Answers(n)}
<1>3. 0 \in Good
  <2>1. ASSUME NEW s \in S, NEW e \in Searches(S), MayCall(dep, S, 0, s, e) PROVE FALSE
    <3>1. PICK W : W = Marked(e, S, 0)
      OBVIOUS
    <3>2. W \in SUBSET S /\ s \in W /\ Cardinality(W) <= 0
      BY <2>1, <3>1 DEF MayCall, Marked
    <3>3. IsFiniteSet(W) /\ Cardinality(W) \in Nat
      BY <3>2, FS_Subset, FS_CardinalityType
    <3>. QED  BY <3>2, <3>3, FS_EmptySet
  <2>. QED  BY <1>2, <2>1
<1>4. ASSUME NEW n \in 1..M, n - 1 \in Good PROVE n \in Good
  <2>1. PICK v : v = C[n - 1]
    OBVIOUS
  <2>2. v \in [S \X Searches(S) -> Searches(S)] /\ n \in Nat /\ C[n] = Called(dep, v) /\ n \in 0..M
    BY <1>2, <2>1
  <2>3. \A s \in S, e \in Searches(S) : MayCall(dep, S, n - 1, s, e) => Returns(dep, S, s, e, v[<<s, e>>])
    BY <1>4, <2>1
  <2>4. ASSUME NEW s \in S, NEW e \in Searches(S), MayCall(dep, S, n, s, e)
        PROVE  Returns(dep, S, s, e, Called(dep, v)[<<s, e>>])
    BY <2>2, <2>3, <2>4, CallReturns
  <2>. QED  BY <2>2, <2>4
<1>5. \A n \in 0..M : n \in Good
  <2>. HIDE DEF Good
  <2>. QED  BY <1>2, <1>3, <1>4, UpTo
<1>. QED  BY <1>1, <1>5 DEF Good

\* The loop over the steps of the file that starts the search.
Started(v, x, e) == IF e.raised \/ e.state[x] # 0 THEN e ELSE v[<<x, e>>]
Unseen(S) == [raised |-> FALSE, state |-> [s \in S |-> 0]]
AllStarted(v, S) ==
    CHOOSE g : g = [s \in SUBSET S |-> IF s = {} THEN Unseen(S) ELSE Started(v, Pick(s), g[s \ {Pick(s)}])]

LEMMA SearchIs ==
    \A dep : _validate_no_cycles_of(dep) <=> ~AllStarted(visit(dep), DOMAIN dep)[DOMAIN dep].raised
  BY DEF _validate_no_cycles_of, AllStarted, Unseen, Started, Pick, FoldSet, MapThenFoldSet

LEMMA Starts ==
    ASSUME NEW S, IsFiniteSet(S), NEW v \in [S \X Searches(S) -> Searches(S)]
    PROVE  /\ AllStarted(v, S)[{}] = Unseen(S)
           /\ \A s \in SUBSET S : s # {} => AllStarted(v, S)[s] = Started(v, Pick(s), AllStarted(v, S)[s \ {Pick(s)}])
<1>. DEFINE T == Searches(S)
            F == [p \in S \X T |-> Started(v, p[1], p[2])]
            rule(g) == g = [s \in SUBSET S |-> IF s = {} THEN Unseen(S)
                                               ELSE Started(v, Pick(s), g[s \ {Pick(s)}])]
            A == CHOOSE g : rule(g)
<1>1. ASSUME NEW x \in S, NEW e \in T PROVE Started(v, x, e) \in T
  <2>1. v[<<x, e>>] \in T
    OBVIOUS
  <2>. HIDE DEF T
  <2>. QED  BY <2>1 DEF Started
<1>2. F \in [S \X T -> T] /\ Unseen(S) \in T
  <2>1. F \in [S \X T -> T]
    <3>. HIDE DEF T
    <3>. QED  BY <1>1
  <2>2. Unseen(S) \in T
    BY DEF Unseen, Searches
  <2>. QED  BY <2>1, <2>2
<1>3. PICK g \in [SUBSET S -> T] : FoldRule(g, S, Unseen(S), F)
  <2>. HIDE DEF F, T
  <2>. QED  BY <1>2, FoldExists
<1>4. \A s \in SUBSET S : s # {} => s \ {Pick(s)} \in SUBSET S /\ Pick(s) \in S
  BY PickIn
<1>5. \A s \in SUBSET S : s # {} => g[s] = Started(v, Pick(s), g[s \ {Pick(s)}])
  <2>1. \A x \in S, e \in T : F[<<x, e>>] = Started(v, x, e)
    <3>. HIDE DEF T
    <3>. QED  OBVIOUS
  <2>. HIDE DEF F, T
  <2>. QED  BY <1>3, <1>4, <2>1 DEF FoldRule
<1>6. rule(g)
  <2>1. g[{}] = Unseen(S)
    BY <1>3 DEF FoldRule
  <2>2. g = [s \in SUBSET S |-> g[s]]
    OBVIOUS
  <2>. QED  BY <1>5, <2>1, <2>2
<1>7. rule(A)
  <2>. HIDE DEF rule
  <2>. QED  BY <1>6, Zenon
<1>8. AllStarted(v, S) = A
  BY DEF AllStarted
<1>. HIDE DEF A
<1>. QED  BY <1>7, <1>8

\* The search of load_pipeline raises if and only if there is a cycle.
LEMMA SearchIsExact ==
    ASSUME NEW S, IsFiniteSet(S), NEW dep \in [S -> SUBSET S]
    PROVE  _validate_no_cycles_of(dep) <=> ~Stuck(dep, S)
<1>1. PICK M, v, G : M = Cardinality(S) /\ v = visit(dep) /\ G = AllStarted(v, S)
  OBVIOUS
<1>2. DOMAIN dep = S /\ M \in Nat
  BY <1>1, FS_CardinalityType
<1>3. v = Calls(dep)[M] /\ M \in 0..M
  BY <1>1, <1>2, VisitIs
<1>4. v \in [S \X Searches(S) -> Searches(S)]
  BY <1>1, <1>3, CallsAre
<1>5. \A s \in S, e \in Searches(S) : MayCall(dep, S, M, s, e) => Returns(dep, S, s, e, v[<<s, e>>])
  BY <1>1, <1>3, CallsReturn
<1>6. /\ G[{}] = Unseen(S)
      /\ \A s \in SUBSET S : s # {} => G[s] = Started(v, Pick(s), G[s \ {Pick(s)}])
  BY <1>1, <1>4, Starts
<1>. DEFINE Fine(q, e) == /\ e \in Searches(S)
                          /\ e.raised => Stuck(dep, S)
                          /\ ~e.raised => /\ Marked(e, S, 1) = {} /\ q \subseteq Marked(e, S, 2)
                                          /\ Settled(dep, S, e)
            Good == {q \in SUBSET S : Fine(q, G[q])}
<1>7. {} \in Good
  <2>1. PICK e : e = Unseen(S)
    OBVIOUS
  <2>2. e \in Searches(S) /\ ~e.raised /\ \A s \in S : e.state[s] = 0
    BY <2>1 DEF Unseen, Searches
  <2>3. Marked(e, S, 1) = {} /\ Marked(e, S, 2) = {}
    BY <2>2 DEF Marked
  <2>4. Fine({}, e)
    BY <2>2, <2>3 DEF Settled
  <2>. QED  BY <1>6, <2>1, <2>4
<1>8. ASSUME NEW x \in S, NEW q, NEW e, Fine(q, e) PROVE Fine(q \cup {x}, Started(v, x, e))
  <2>1. CASE e.raised
    BY <1>8, <2>1 DEF Started
  <2>2. CASE ~e.raised /\ e.state[x] # 0
    <3>1. e.state[x] \in 0..2 /\ e.state[x] # 1
      BY <1>8, <2>2 DEF Searches, Marked
    <3>2. e.state[x] = 2
      BY <2>2, <3>1
    <3>3. x \in Marked(e, S, 2)
      BY <3>2 DEF Marked
    <3>. QED  BY <1>8, <2>2, <3>3 DEF Started
  <2>3. CASE ~e.raised /\ e.state[x] = 0
    <3>1. PICK W : W = Marked(e, S, 0)
      OBVIOUS
    <3>2. W \in SUBSET S /\ x \in W
      BY <2>3, <3>1 DEF Marked
    <3>3. Cardinality(W) <= M
      BY <1>1, <3>2, FS_Subset
    <3>4. MayCall(dep, S, M, x, e)
      BY <1>8, <2>3, <3>1, <3>2, <3>3 DEF MayCall
    <3>5. Returns(dep, S, x, e, v[<<x, e>>])
      BY <1>5, <1>8, <3>4
    <3>6. PICK f : f = v[<<x, e>>]
      OBVIOUS
    <3>7. Fine(q \cup {x}, f)
      BY <1>8, <2>3, <3>5, <3>6 DEF Returns
    <3>. QED  BY <2>3, <3>6, <3>7 DEF Started
  <2>. QED  BY <2>1, <2>2, <2>3
<1>9. ASSUME NEW q \in SUBSET S, q # {}, q \ {Pick(q)} \in Good PROVE q \in Good
  <2>1. PICK x, r, e : x = Pick(q) /\ r = q \ {x} /\ e = G[r]
    OBVIOUS
  <2>2. x \in S /\ r \cup {x} = q
    BY <1>9, <2>1, PickIn
  <2>3. Fine(r, e)
    BY <1>9, <2>1
  <2>4. Fine(r \cup {x}, Started(v, x, e))
    <3>. HIDE DEF Fine
    <3>. QED  BY <1>8, <2>2, <2>3
  <2>5. G[q] = Started(v, x, e)
    BY <1>6, <1>9, <2>1
  <2>. HIDE DEF Fine
  <2>. QED  BY <2>2, <2>4, <2>5
<1>10. S \in Good
  <2>. HIDE DEF Good
  <2>. QED  BY <1>7, <1>9, SubsetsUpTo
<1>11. PICK e : e = G[S]
  OBVIOUS
<1>12. Fine(S, e) /\ (_validate_no_cycles_of(dep) <=> ~e.raised)
  BY <1>1, <1>2, <1>10, <1>11, SearchIs
<1>13. ASSUME ~e.raised PROVE ~Stuck(dep, S)
  <2>1. Marked(e, S, 2) = S /\ Settled(dep, S, e)
    BY <1>12, <1>13 DEF Marked
  <2>. QED  BY <2>1 DEF Settled, Stuck
<1>. QED  BY <1>12, <1>13

LEMMA ImageIsFinite ==
    ASSUME NEW D, IsFiniteSet(D), NEW f
    PROVE  IsFiniteSet({f[x] : x \in D}) /\ Cardinality({f[x] : x \in D}) <= Cardinality(D)
<1>1. PICK g, T : g = [x \in D |-> f[x]] /\ T = {f[x] : x \in D}
  OBVIOUS
<1>2. g \in Surjection(D, T)
  <2>1. g \in [D -> T] /\ \A t \in T : \E x \in D : g[x] = t
    BY <1>1
  <2>. QED  BY <2>1 DEF Surjection
<1>3. IsFiniteSet(T) /\ Cardinality(T) <= Cardinality(D)
  BY <1>2, FS_Surjection
<1>. QED  BY <1>1, <1>3

LEMMA FileLabels ==
    ASSUME NEW X, NEW file, file.steps \in Seq(X), NEW components,
           load_pipeline(file, components) = "loaded", NEW step \in ToSet(file.steps), step.component # Omitted
    PROVE  components[step.component].label \in {NoLabel, resolve_required_label(file, components)}
<1>1. /\ model_validate(file) /\ _validate_components_resolve(file, components)
      /\ resolve_required_label(file, components) # "conflict"
  BY DEF load_pipeline
<1>2. step.component \in DOMAIN components
  BY <1>1 DEF model_validate, _validate_components_resolve
<1>3. PICK L, l : L = Labels(file, components) /\ l = components[step.component].label
  OBVIOUS
<1>4. l # NoLabel => l \in L
  BY <1>2, <1>3 DEF Labels
<1>5. IsFiniteSet(L)
  <2>1. PICK T, D, q : T = ToSet(file.steps) /\ D = DOMAIN file.steps /\ q = file.steps
    OBVIOUS
  <2>2. D = 1..Len(q) /\ Len(q) \in Nat
    BY <2>1
  <2>3. IsFiniteSet(D)
    <3>1. 1 \in Int /\ Len(q) \in Int
      BY <2>2
    <3>. QED  BY <2>2, <3>1, FS_Interval
  <2>4. IsFiniteSet({q[i] : i \in D})
    BY <2>3, ImageIsFinite
  <2>5. T = {q[i] : i \in D}
    BY <2>1 DEF ToSet
  <2>6. IsFiniteSet({s \in T : s.component \in DOMAIN components})
    BY <2>4, <2>5, FS_Subset
  <2>7. PICK U : U = {s \in T : s.component \in DOMAIN components}
    OBVIOUS
  <2>8. IsFiniteSet({components[s.component].label : s \in U})
    <3>1. PICK g : g = [s \in U |-> components[s.component].label]
      OBVIOUS
    <3>2. IsFiniteSet({g[s] : s \in U})
      BY <2>6, <2>7, ImageIsFinite
    <3>3. {g[s] : s \in U} = {components[s.component].label : s \in U}
      BY <3>1
    <3>. QED  BY <3>2, <3>3
  <2>9. L \subseteq {components[s.component].label : s \in U}
    BY <1>3, <2>1, <2>7 DEF Labels
  <2>. QED  BY <2>8, <2>9, FS_Subset
<1>6. L # {} => Cardinality(L) = 1
  BY <1>1, <1>3 DEF resolve_required_label
<1>7. L # {} => resolve_required_label(file, components) \in L
  BY <1>3, <1>6 DEF resolve_required_label
<1>8. L # {} => \E x : L = {x}
  BY <1>5, <1>6, FS_Singleton
<1>. QED  BY <1>3, <1>4, <1>7, <1>8

LEMMA FileGraph ==
    ASSUME NEW file, Ids(file) \subseteq Steps, _validate_depends_on_refs(file), NEW need,
           need = [s \in Steps |-> IF s \in Ids(file) THEN depends_on(file)[s] ELSE {}]
    PROVE  _validate_no_cycles_of(depends_on(file)) <=> _validate_no_cycles(need)
<1>1. PICK S, dep, q : S = Ids(file) /\ dep = depends_on(file) /\ q = file.steps
  OBVIOUS
<1>2. S = {q[i].id : i \in DOMAIN q} /\ dep = [s \in S |-> q[CHOOSE i \in DOMAIN q : q[i].id = s].deps]
  BY <1>1 DEF Ids, depends_on
<1>3. \A i \in DOMAIN q : q[i].deps \subseteq S
  BY <1>1 DEF _validate_depends_on_refs, ToSet
<1>4. ASSUME NEW s \in S PROVE dep[s] \in SUBSET S
  <2>1. \E i \in DOMAIN q : q[i].id = s
    BY <1>2
  <2>2. PICK j : j = CHOOSE i \in DOMAIN q : q[i].id = s
    OBVIOUS
  <2>3. j \in DOMAIN q
    BY <2>1, <2>2
  <2>. QED  BY <1>2, <1>3, <2>2, <2>3
<1>5. dep \in [S -> SUBSET S] /\ S \subseteq Steps /\ IsFiniteSet(S)
  <2>1. S \subseteq Steps
    BY <1>1
  <2>. QED  BY <1>2, <1>4, <2>1, StepsFinite, FS_Subset
<1>6. _validate_no_cycles_of(dep) <=> ~Stuck(dep, S)
  BY <1>5, SearchIsExact
<1>7. need \in [Steps -> SUBSET Nat]
      /\ \A s \in Steps : need[s] \subseteq Steps /\ need[s] = IF s \in S THEN dep[s] ELSE {}
  <2>1. need = [s \in Steps |-> IF s \in S THEN dep[s] ELSE {}]
    BY <1>1
  <2>2. Steps \subseteq Nat
    BY StepsFinite DEF Steps
  <2>3. \A s \in Steps : need[s] = IF s \in S THEN dep[s] ELSE {}
    BY <2>1
  <2>4. \A s \in Steps : need[s] \subseteq Steps
    BY <1>5, <2>3
  <2>5. need = [s \in Steps |-> need[s]]
    BY <2>1
  <2>6. need \in [Steps -> SUBSET Nat]
    BY <2>2, <2>4, <2>5
  <2>. QED  BY <2>3, <2>4, <2>6
<1>8. ASSUME Stuck(dep, S) PROVE ~_validate_no_cycles(need)
  <2>1. PICK X \in SUBSET S : X # {} /\ \A t \in X : dep[t] \cap X # {}
    BY <1>8 DEF Stuck
  <2>2. X \in SUBSET Steps /\ Blocked(need, X)
    BY <1>5, <1>7, <2>1 DEF Blocked
  <2>. QED  BY <1>7, <2>1, <2>2, SearchFindsCycles
<1>9. ASSUME ~_validate_no_cycles(need) PROVE Stuck(dep, S)
  <2>1. PICK X \in SUBSET Steps : X # {} /\ Blocked(need, X)
    BY <1>7, <1>9, SearchIsRight
  <2>2. \A t \in X : need[t] \cap X # {}
    BY <1>7, <2>1 DEF Blocked
  <2>3. X \subseteq S /\ \A t \in X : dep[t] \cap X # {}
    BY <1>7, <2>1, <2>2
  <2>. QED  BY <2>1, <2>3 DEF Stuck
<1>. QED  BY <1>1, <1>6, <1>8, <1>9

\* What load_pipeline accepts can be run by the constructor of PipelineDAG and by one
\* worker, and what it refuses as cyclic the constructor refuses (pipeline_schema.py,
\* pipeline_dag.py), for every file of at most N steps and every project.
THEOREM LoadedIsRunnable ==
    ASSUME NEW X, NEW file, file.steps \in Seq(X), Ids(file) \subseteq Steps, NEW components
    PROVE  LET verdict == load_pipeline(file, components)
               need == [s \in Steps |-> IF s \in Ids(file) THEN depends_on(file)[s] ELSE {}]
           IN  /\ verdict = "loaded" => _validate_no_cycles(need)
               /\ verdict = "cycle" => ~_validate_no_cycles(need)
               /\ verdict = "loaded" => \A step \in ToSet(file.steps) :
                     step.component # Omitted =>
                         components[step.component].label \in {NoLabel, resolve_required_label(file, components)}
<1>1. PICK need : need = [s \in Steps |-> IF s \in Ids(file) THEN depends_on(file)[s] ELSE {}]
  OBVIOUS
<1>2. ASSUME load_pipeline(file, components) = "loaded" PROVE _validate_no_cycles(need)
  <2>1. _validate_depends_on_refs(file) /\ _validate_no_cycles_of(depends_on(file))
    BY <1>2 DEF load_pipeline
  <2>. QED  BY <1>1, <2>1, FileGraph
<1>3. ASSUME load_pipeline(file, components) = "cycle" PROVE ~_validate_no_cycles(need)
  <2>1. _validate_depends_on_refs(file) /\ ~_validate_no_cycles_of(depends_on(file))
    BY <1>3 DEF load_pipeline
  <2>. QED  BY <1>1, <2>1, FileGraph
<1>. QED  BY <1>1, <1>2, <1>3, FileLabels
-----------------------------------------------------------------------------
(* The pages of a collection.  The rows of a query are ordered one after    *)
(* another, and a page is what follows the cursor, so that a row that was   *)
(* there all the time has come or is behind the cursor.                     *)

CollectionRow == [id : Nat, at : Nat, from : Nat, till : Nat]
Collection(coll) ==
    IsFiniteSet(coll) /\ coll \subseteq CollectionRow /\ \A r, s \in coll : r.id = s.id => r = s
Newer(r, s) == _is_before(s, encode_cursor(r))

LEMMA NewerIsOrder ==
    ASSUME NEW coll, Collection(coll)
    PROVE  \A r, s, t \in coll : /\ ~Newer(r, r)
                                 /\ Newer(r, s) /\ Newer(s, t) => Newer(r, t)
                                 /\ r = s \/ Newer(r, s) \/ Newer(s, r)
                                 /\ Newer(r, s) => s.at <= r.at
<1>1. \A r \in coll : /\ r.id \in Nat /\ r.at \in Nat
                      /\ encode_cursor(r).last_id = r.id /\ encode_cursor(r).created_at = r.at
  BY DEF Collection, CollectionRow, encode_cursor
<1>2. \A r, s \in coll : Newer(r, s) <=> s.at < r.at \/ (s.at = r.at /\ s.id < r.id)
  BY <1>1 DEF Newer, _is_before
<1>3. \A r, s \in coll : r.id = s.id => r = s
  BY DEF Collection
<1>. QED  BY <1>1, <1>2, <1>3

Earlier(coll, r) == {s \in coll : Newer(s, r)}

LEMMA RanksDiffer ==
    ASSUME NEW coll, Collection(coll)
    PROVE  /\ Cardinality(coll) \in Nat
           /\ \A r \in coll : Cardinality(Earlier(coll, r)) \in 0..(Cardinality(coll) - 1)
           /\ \A r, s \in coll : Newer(r, s) => Cardinality(Earlier(coll, r)) < Cardinality(Earlier(coll, s))
<1>1. IsFiniteSet(coll) /\ Cardinality(coll) \in Nat
  BY FS_CardinalityType DEF Collection
<1>2. ASSUME NEW r \in coll
      PROVE  IsFiniteSet(Earlier(coll, r)) /\ Cardinality(Earlier(coll, r)) \in 0..(Cardinality(coll) - 1)
  <2>1. PICK E : E = Earlier(coll, r)
    OBVIOUS
  <2>2. E \in SUBSET (coll \ {r})
    BY <1>2, <2>1, NewerIsOrder DEF Earlier
  <2>3. IsFiniteSet(coll \ {r}) /\ Cardinality(coll \ {r}) = Cardinality(coll) - 1
    BY <1>1, <1>2, FS_RemoveElement
  <2>4. IsFiniteSet(E) /\ Cardinality(E) <= Cardinality(coll \ {r}) /\ Cardinality(E) \in Nat
    BY <2>2, <2>3, FS_Subset, FS_CardinalityType
  <2>. QED  BY <1>1, <2>1, <2>3, <2>4
<1>3. ASSUME NEW r \in coll, NEW s \in coll, Newer(r, s)
      PROVE  Cardinality(Earlier(coll, r)) < Cardinality(Earlier(coll, s))
  <2>1. PICK A, B : A = Earlier(coll, r) /\ B = Earlier(coll, s)
    OBVIOUS
  <2>2. A \cup {r} \in SUBSET B /\ r \notin A
    BY <1>3, <2>1, NewerIsOrder DEF Earlier
  <2>3. IsFiniteSet(A) /\ IsFiniteSet(B) /\ Cardinality(A) \in Nat /\ Cardinality(B) \in Nat
    BY <1>2, <1>3, <2>1, FS_CardinalityType
  <2>4. Cardinality(A \cup {r}) = Cardinality(A) + 1
    BY <2>2, <2>3, FS_AddElement
  <2>5. Cardinality(A \cup {r}) <= Cardinality(B)
    BY <2>2, <2>3, FS_Subset
  <2>. QED  BY <2>1, <2>3, <2>4, <2>5
<1>. QED  BY <1>1, <1>2, <1>3

\* The list that order_candidates gives has each row once, the newest first.
LEMMA OrderedRows ==
    ASSUME NEW coll, Collection(coll), NEW q, q = order_candidates(coll)
    PROVE  /\ Cardinality(coll) \in Nat /\ q \in [1..Cardinality(coll) -> coll]
           /\ q \in Seq(coll) /\ Len(q) = Cardinality(coll)
           /\ \A r \in coll : \E i \in 1..Cardinality(coll) : q[i] = r
           /\ \A i, j \in 1..Cardinality(coll) : i < j => Newer(q[i], q[j])
<1>1. PICK n : n = Cardinality(coll)
  OBVIOUS
<1>2. PICK Rank : Rank = [r \in coll |-> Cardinality(Earlier(coll, r))]
  OBVIOUS
<1>3. /\ n \in Nat /\ \A r \in coll : Rank[r] \in 0..(n - 1) /\ Rank[r] = Cardinality(Earlier(coll, r))
      /\ \A r, s \in coll : Newer(r, s) => Rank[r] < Rank[s]
  BY <1>1, <1>2, RanksDiffer
<1>4. \A r, s \in coll : Rank[r] = Rank[s] => r = s
  BY <1>3, NewerIsOrder
<1>5. \A i \in 1..n : \E r \in coll : Rank[r] = i - 1
  <2>1. PICK f : f = [r \in coll |-> Rank[r] + 1]
    OBVIOUS
  <2>2. f \in [coll -> 1..n] /\ \A r, s \in coll : f[r] = f[s] => r = s
    BY <1>3, <1>4, <2>1
  <2>3. f \in Injection(coll, 1..n)
    BY <2>2 DEF Injection, IsInjective
  <2>4. IsFiniteSet(1..n) /\ Cardinality(1..n) = n
    BY <1>3, FS_Interval
  <2>5. f \in Surjection(coll, 1..n)
    BY <1>1, <2>3, <2>4, FS_Injection DEF Collection
  <2>6. \A i \in 1..n : \E r \in coll : f[r] = i
    BY <2>5 DEF Surjection
  <2>7. \A r \in coll : f[r] = Rank[r] + 1 /\ Rank[r] \in Int
    BY <1>3, <2>1
  <2>8. ASSUME NEW i \in 1..n PROVE \E r \in coll : Rank[r] = i - 1
    <3>1. PICK r \in coll : f[r] = i
      BY <2>6
    <3>2. Rank[r] = i - 1
      BY <2>7, <3>1
    <3>. QED  BY <3>2
  <2>. QED  BY <2>8
<1>6. q = [i \in 1..n |-> CHOOSE r \in coll : Cardinality(Earlier(coll, r)) = i - 1]
  BY <1>1 DEF order_candidates, Earlier, Newer
<1>7. \A i \in 1..n : q[i] \in coll /\ Rank[q[i]] = i - 1
  <2>. SUFFICES ASSUME NEW i \in 1..n PROVE q[i] \in coll /\ Rank[q[i]] = i - 1
    OBVIOUS
  <2>1. \E r \in coll : Cardinality(Earlier(coll, r)) = i - 1
    BY <1>3, <1>5
  <2>2. q[i] = CHOOSE r \in coll : Cardinality(Earlier(coll, r)) = i - 1
    BY <1>6
  <2>. QED  BY <1>3, <2>1, <2>2
<1>8. q \in [1..n -> coll]
  BY <1>6, <1>7
<1>9. q \in Seq(coll) /\ Len(q) = n
  <2>1. q \in Seq(coll)
    BY <1>3, <1>8, SeqDef
  <2>. QED  BY <1>3, <1>8, <2>1, LenProperties
<1>10. \A r \in coll : \E i \in 1..n : q[i] = r
  <2>. SUFFICES ASSUME NEW r \in coll PROVE \E i \in 1..n : q[i] = r
    OBVIOUS
  <2>1. Rank[r] + 1 \in 1..n /\ (Rank[r] + 1) - 1 = Rank[r]
    BY <1>3
  <2>2. Rank[q[Rank[r] + 1]] = Rank[r] /\ q[Rank[r] + 1] \in coll
    BY <1>7, <2>1
  <2>3. q[Rank[r] + 1] = r
    BY <1>4, <2>2
  <2>. QED  BY <2>1, <2>3
<1>11. ASSUME NEW i \in 1..n, NEW j \in 1..n, i < j PROVE Newer(q[i], q[j])
  <2>1. q[i] \in coll /\ q[j] \in coll /\ Rank[q[i]] = i - 1 /\ Rank[q[j]] = j - 1
    BY <1>7
  <2>2. Rank[q[i]] < Rank[q[j]] /\ q[i] # q[j]
    BY <1>3, <1>11, <2>1
  <2>3. ~Newer(q[j], q[i])
    BY <1>3, <2>1, <2>2
  <2>. QED  BY <2>1, <2>2, <2>3, NewerIsOrder
<1>. QED  BY <1>1, <1>3, <1>8, <1>9, <1>10, <1>11

LEMMA EachIsOrdered ==
    \A R : Collection(R) => \A r \in R : \E i \in 1..Cardinality(R) : order_candidates(R)[i] = r
  BY OrderedRows

LEMMA CandidatesAre ==
    ASSUME NEW coll, Collection(coll)
    PROVE  /\ Candidates(coll) \in SUBSET coll
           /\ Cardinality(coll) <= CANDIDATE_CEILING => Candidates(coll) = coll
<1>1. PICK q, n, m : q = order_candidates(coll) /\ n = Cardinality(coll)
                     /\ m = IF n < CANDIDATE_CEILING THEN n ELSE CANDIDATE_CEILING
  OBVIOUS
<1>2. /\ n \in Nat /\ q \in [1..n -> coll] /\ \A r \in coll : \E i \in 1..n : q[i] = r
      /\ \A i, j \in 1..n : i < j => Newer(q[i], q[j])
  <2>1. n \in Nat /\ q \in [1..n -> coll]
    BY <1>1, OrderedRows
  <2>2. \A r \in coll : \E i \in 1..n : q[i] = r
    BY <1>1, OrderedRows
  <2>3. \A i, j \in 1..n : i < j => Newer(q[i], q[j])
    BY <1>1, OrderedRows
  <2>. QED  BY <2>1, <2>2, <2>3
<1>3. m \in Nat /\ m <= n /\ 1..m \subseteq 1..n
  BY <1>1, <1>2, PagingAssumption
<1>4. PICK C : C = {q[i] : i \in 1..m}
  OBVIOUS
<1>5. C \in SUBSET coll
  BY <1>2, <1>3, <1>4
<1>6. Cardinality(C) = m
  <2>1. PICK f : f = [i \in 1..m |-> q[i]]
    OBVIOUS
  <2>2. f \in [1..m -> C] /\ (\A c \in C : \E i \in 1..m : f[i] = c)
    BY <1>4, <2>1
  <2>3. \A i, j \in 1..m : f[i] = f[j] => i = j
    <3>. SUFFICES ASSUME NEW i \in 1..m, NEW j \in 1..m, q[i] = q[j] PROVE i = j
      BY <2>1
    <3>1. q[i] \in coll /\ i \in 1..n /\ j \in 1..n
      BY <1>2, <1>3
    <3>2. ~Newer(q[i], q[i])
      BY <3>1, NewerIsOrder
    <3>3. ~(i < j) /\ ~(j < i)
      BY <1>2, <3>1, <3>2
    <3>. QED  BY <3>1, <3>3
  <2>4. f \in Bijection(1..m, C)
    BY <2>2, <2>3 DEF Bijection, Injection, Surjection, IsInjective
  <2>5. ExistsBijection(1..m, C)
    BY <2>4 DEF ExistsBijection
  <2>. QED  BY <1>3, <2>5, FS_CountingElements
<1>7. \A r \in C, s \in coll \ C : s.at <= r.at
  <2>. SUFFICES ASSUME NEW i \in 1..m, NEW j \in 1..n, q[j] \notin C PROVE q[j].at <= q[i].at
    BY <1>2, <1>4
  <2>1. j \notin 1..m
    BY <1>4
  <2>2. i < j /\ i \in 1..n
    BY <1>2, <1>3, <2>1
  <2>3. Newer(q[i], q[j]) /\ q[i] \in coll /\ q[j] \in coll
    BY <1>2, <2>2
  <2>. QED  BY <2>3, NewerIsOrder
<1>. DEFINE Top(D) == /\ Cardinality(D) = IF Cardinality(coll) < CANDIDATE_CEILING
                                          THEN Cardinality(coll) ELSE CANDIDATE_CEILING
                      /\ \A r \in D, s \in coll \ D : s.at <= r.at
<1>8. Top(C)
  BY <1>1, <1>6, <1>7
<1>9. Candidates(coll) \in SUBSET coll /\ Top(Candidates(coll))
  <2>1. Candidates(coll) = CHOOSE D \in SUBSET coll : Top(D)
    BY DEF Candidates
  <2>. HIDE DEF Top
  <2>. QED  BY <1>5, <1>8, <2>1
<1>10. ASSUME Cardinality(coll) <= CANDIDATE_CEILING PROVE Candidates(coll) = coll
  <2>1. Cardinality(Candidates(coll)) = Cardinality(coll)
    BY <1>1, <1>2, <1>9, <1>10, PagingAssumption
  <2>2. IsFiniteSet(coll)
    BY DEF Collection
  <2>. QED  BY <1>9, <2>1, <2>2, FS_Subset
<1>. QED  BY <1>9, <1>10

Cursors(coll) == {NoCursor} \cup {encode_cursor(r) : r \in coll}
Behind(r, cursor) == cursor = NoCursor \/ _is_before(r, cursor)

\* A page: what is behind the cursor, or so much of it as the page holds.
PageOf(coll, S, limit, p) ==
    /\ p = [items |-> p.items, has_more |-> p.has_more, next_cursor |-> p.next_cursor]
    /\ p.has_more \in BOOLEAN /\ p.items \in Seq(S) /\ p.next_cursor \in Cursors(coll)
    /\ \A i, j \in 1..Len(p.items) : i < j => Newer(p.items[i], p.items[j])
    /\ ~p.has_more => \A r \in S : \E i \in 1..Len(p.items) : p.items[i] = r
    /\ p.has_more =>
          /\ Len(p.items) = limit
          /\ \E c \in S : /\ p.next_cursor = encode_cursor(c)
                          /\ \A r \in S : Newer(c, r) \/ \E i \in 1..Len(p.items) : p.items[i] = r
                          /\ \A i \in 1..Len(p.items) : ~Newer(c, p.items[i])
                          /\ \E r \in S : Newer(c, r)

LEMMA PageIs ==
    ASSUME NEW coll, Collection(coll), NEW C \in SUBSET coll, NEW limit \in Nat \ {0}, NEW cursor,
           NEW S, S = {r \in C : Behind(r, cursor)}, NEW p, p = paginate(C, limit, cursor)
    PROVE  PageOf(coll, S, limit, p)
<1>1. PICK q, n : q = order_candidates(S) /\ n = Cardinality(S)
  OBVIOUS
<1>2. Collection(S) /\ S \in SUBSET coll
  BY FS_Subset DEF Collection
<1>3. n \in Nat /\ q \in [1..n -> S] /\ q \in Seq(S) /\ Len(q) = n
  BY <1>1, <1>2, OrderedRows
<1>4. \A r \in S : \E i \in 1..n : q[i] = r
  <2>1. \A r \in S : \E i \in 1..Cardinality(S) : order_candidates(S)[i] = r
    <3>1. PICK R : R = S
      OBVIOUS
    <3>2. Collection(R)
      BY <1>2, <3>1
    <3>3. \A r \in R : \E i \in 1..Cardinality(R) : order_candidates(R)[i] = r
      BY <3>2, EachIsOrdered
    <3>. QED  BY <3>1, <3>3
  <2>. QED  BY <1>1, <2>1
<1>5. \A i, j \in 1..n : i < j => Newer(q[i], q[j])
  BY <1>1, <1>2, OrderedRows
<1>6. PICK items : items = IF n > limit THEN SubSeq(q, 1, limit) ELSE q
  OBVIOUS
<1>7. PICK next : next = IF n > limit THEN encode_cursor(items[limit]) ELSE NoCursor
  OBVIOUS
<1>10. p = [items |-> items, has_more |-> n > limit, next_cursor |-> next]
  <2>1. {r \in C : cursor = NoCursor \/ _is_before(r, cursor)} = S
    BY DEF Behind
  <2>. QED  BY <1>1, <1>3, <1>6, <1>7, <2>1 DEF paginate
<1>11. p.items = items /\ p.next_cursor = next /\ p.has_more = (n > limit)
  BY <1>10
<1>12. p = [items |-> p.items, has_more |-> p.has_more, next_cursor |-> p.next_cursor]
  <2>. QED  BY <1>10, Zenon
<1>8. CASE n > limit
  <2>1. limit \in 1..n /\ 1..limit \subseteq 1..n /\ limit + 1 \in 1..n
    BY <1>3, <1>8
  <2>2. items \in Seq(S) /\ Len(items) = limit /\ \A i \in 1..limit : items[i] = q[i]
    <3>1. \A i \in 1..limit : q[i] \in S
      BY <1>3, <2>1
    <3>2. SubSeq(q, 1, limit) \in Seq(S) /\ Len(SubSeq(q, 1, limit)) = limit
      BY <3>1, SubSeqProperties
    <3>3. \A i \in 1..(limit - 1 + 1) : SubSeq(q, 1, limit)[i] = q[1 + i - 1]
      BY <3>1, SubSeqProperties
    <3>4. \A i \in 1..limit : i \in 1..(limit - 1 + 1) /\ 1 + i - 1 = i
      OBVIOUS
    <3>. QED  BY <1>6, <1>8, <3>2, <3>3, <3>4
  <2>3. PICK c : c = q[limit]
    OBVIOUS
  <2>4. c \in S /\ c \in coll
    BY <1>2, <1>3, <2>1, <2>3
  <2>5. ASSUME NEW r \in S PROVE Newer(c, r) \/ \E i \in 1..limit : items[i] = r
    <3>1. PICK i \in 1..n : q[i] = r
      BY <1>4
    <3>2. i \in 1..limit \/ limit < i
      BY <1>3
    <3>. QED  BY <1>5, <2>1, <2>2, <2>3, <3>1, <3>2
  <2>6. ASSUME NEW i \in 1..limit PROVE ~Newer(c, items[i])
    <3>1. i \in 1..n /\ q[i] \in coll /\ items[i] = q[i]
      BY <1>2, <1>3, <2>1, <2>2
    <3>2. i = limit \/ i < limit
      OBVIOUS
    <3>3. q[i] = c \/ Newer(q[i], c)
      BY <1>5, <2>1, <2>3, <3>1, <3>2
    <3>. QED  BY <2>4, <3>1, <3>3, NewerIsOrder
  <2>7. q[limit + 1] \in S /\ Newer(c, q[limit + 1])
    <3>1. limit < limit + 1
      OBVIOUS
    <3>. QED  BY <1>3, <1>5, <2>1, <2>3, <3>1
  <2>8. \A i, j \in 1..limit : i < j => Newer(items[i], items[j])
    BY <1>5, <2>1, <2>2
  <2>9. p.items = items /\ p.has_more /\ p.has_more \in BOOLEAN /\ p.next_cursor = encode_cursor(c)
    <3>1. p.has_more = TRUE
      BY <1>8, <1>11, Zenon
    <3>2. p.next_cursor = encode_cursor(c)
      BY <1>7, <1>8, <1>11, <2>1, <2>2, <2>3
    <3>. QED  BY <1>11, <3>1, <3>2
  <2>10. encode_cursor(c) \in Cursors(coll)
    BY <2>4 DEF Cursors
  <2>11. /\ \A r \in S : Newer(c, r) \/ \E i \in 1..Len(p.items) : p.items[i] = r
         /\ \A i \in 1..Len(p.items) : ~Newer(c, p.items[i])
         /\ \E r \in S : Newer(c, r)
         /\ \A i, j \in 1..Len(p.items) : i < j => Newer(p.items[i], p.items[j])
    BY <2>2, <2>5, <2>6, <2>7, <2>8, <2>9
  <2>. QED  BY <1>12, <2>2, <2>4, <2>9, <2>10, <2>11 DEF PageOf
<1>9. CASE ~(n > limit)
  <2>1. p.items = q /\ ~p.has_more /\ p.has_more \in BOOLEAN /\ p.next_cursor = NoCursor
    <3>1. p.has_more \in BOOLEAN
      BY <1>3, <1>10
    <3>. QED  BY <1>6, <1>7, <1>9, <1>11, <3>1
  <2>. QED  BY <1>3, <1>4, <1>5, <1>12, <2>1 DEF Cursors, PageOf
<1>. QED  BY <1>8, <1>9

Turn(coll, asked, k, w) ==
    LET page == paginate(Candidates(There(coll, k)), clamp_limit(asked), w.cursor)
    IN  IF ~w.has_more THEN w
        ELSE [items |-> w.items \o page.items, has_more |-> page.has_more, cursor |-> page.next_cursor]
Outset == [items |-> << >>, has_more |-> TRUE, cursor |-> NoCursor]
WalkStates(coll) == [items : Seq(coll), has_more : BOOLEAN, cursor : Cursors(coll)]
Stays(coll) == {r \in coll : r.from = 0 /\ r.till >= MaxPages}

\* After page k: nothing comes twice, each page brought something, what came is not
\* behind the cursor, and what stays has come or is.
WalkOK(coll, k, w) ==
    /\ w \in WalkStates(coll)
    /\ \A i, j \in 1..Len(w.items) : w.items[i] = w.items[j] => i = j
    /\ w.has_more => /\ Len(w.items) >= k
                     /\ \A i \in 1..Len(w.items) : ~Behind(w.items[i], w.cursor)
                     /\ k > 0 => \E r \in coll : Behind(r, w.cursor)
    /\ (\A l \in 1..MaxPages : Cardinality(There(coll, l)) <= CANDIDATE_CEILING) =>
          \A r \in Stays(coll) : (w.has_more /\ Behind(r, w.cursor)) \/ \E i \in 1..Len(w.items) : w.items[i] = r

Joined(R, u, x, z) ==
    /\ z \in Seq(R) /\ Len(z) = Len(u) + Len(x) /\ Len(u) \in Nat /\ Len(x) \in Nat
    /\ \A i \in 1..Len(u) : i \in 1..Len(z) /\ z[i] = u[i]
    /\ \A i \in 1..Len(x) : Len(u) + i \in 1..Len(z) /\ z[Len(u) + i] = x[i]
    /\ \A i \in 1..Len(z) : i \in 1..Len(u) \/ (i - Len(u) \in 1..Len(x) /\ z[i] = x[i - Len(u)])

LEMMA OneAfterTheOther ==
    ASSUME NEW R, NEW u \in Seq(R), NEW x \in Seq(R), NEW z, z = u \o x
    PROVE  Joined(R, u, x, z)
<1>1. Len(u) \in Nat /\ Len(x) \in Nat
  OBVIOUS
<1>2. /\ z \in Seq(R) /\ Len(z) = Len(u) + Len(x)
      /\ \A i \in 1..(Len(u) + Len(x)) : z[i] = IF i <= Len(u) THEN u[i] ELSE x[i - Len(u)]
  BY ConcatProperties
<1>3. \A i \in 1..Len(u) : i \in 1..Len(z) /\ z[i] = u[i]
  BY <1>1, <1>2
<1>4. \A i \in 1..Len(x) : Len(u) + i \in 1..Len(z) /\ z[Len(u) + i] = x[i]
  <2>1. \A i \in 1..Len(x) : /\ Len(u) + i \in 1..(Len(u) + Len(x)) /\ ~(Len(u) + i <= Len(u))
                             /\ (Len(u) + i) - Len(u) = i
    BY <1>1
  <2>. QED  BY <1>2, <2>1
<1>5. \A i \in 1..Len(z) : i \in 1..Len(u) \/ (i - Len(u) \in 1..Len(x) /\ z[i] = x[i - Len(u)])
  BY <1>1, <1>2
<1>. QED  BY <1>1, <1>2, <1>3, <1>4, <1>5 DEF Joined

LEMMA TurnKeeps ==
    ASSUME NEW coll, Collection(coll), NEW asked, clamp_limit(asked) \in Nat \ {0},
           NEW k \in 1..MaxPages, NEW w, WalkOK(coll, k - 1, w)
    PROVE  WalkOK(coll, k, Turn(coll, asked, k, w))
<1>1. CASE ~w.has_more
  BY <1>1 DEF Turn, WalkOK
<1>2. CASE w.has_more
  <2>1. PICK C, limit, S, p, u, x, z, v :
            /\ C = Candidates(There(coll, k)) /\ limit = clamp_limit(asked)
            /\ S = {r \in C : Behind(r, w.cursor)} /\ p = paginate(C, limit, w.cursor)
            /\ u = w.items /\ x = p.items /\ z = u \o x
            /\ v = [items |-> z, has_more |-> p.has_more, cursor |-> p.next_cursor]
    OBVIOUS
  <2>2. Turn(coll, asked, k, w) = v /\ v.items = z /\ v.has_more = p.has_more /\ v.cursor = p.next_cursor
    BY <1>2, <2>1 DEF Turn
  <2>3. /\ u \in Seq(coll) /\ w.cursor \in Cursors(coll)
        /\ \A i, j \in 1..Len(u) : u[i] = u[j] => i = j
        /\ Len(u) >= k - 1 /\ \A i \in 1..Len(u) : ~Behind(u[i], w.cursor)
    BY <1>2, <2>1 DEF WalkOK, WalkStates
  <2>4. C \in SUBSET coll /\ (Cardinality(There(coll, k)) <= CANDIDATE_CEILING => C = There(coll, k))
    <3>1. PICK R : R = There(coll, k)
      OBVIOUS
    <3>2. R \in SUBSET coll
      BY <3>1 DEF There
    <3>3. Collection(R)
      BY <3>2, FS_Subset DEF Collection
    <3>4. Candidates(R) \in SUBSET R /\ (Cardinality(R) <= CANDIDATE_CEILING => Candidates(R) = R)
      BY <3>3, CandidatesAre
    <3>. QED  BY <2>1, <3>1, <3>2, <3>4
  <2>5. S \in SUBSET coll /\ limit \in Nat \ {0}
    BY <2>1, <2>4
  <2>0. PageOf(coll, S, limit, p)
    BY <2>1, <2>4, <2>5, PageIs
  <2>6. /\ p.has_more \in BOOLEAN /\ x \in Seq(S) /\ p.next_cursor \in Cursors(coll)
        /\ \A i, j \in 1..Len(x) : i < j => Newer(x[i], x[j])
        /\ ~p.has_more => \A r \in S : \E i \in 1..Len(x) : x[i] = r
    BY <2>0, <2>1 DEF PageOf
  <2>7. ASSUME p.has_more
        PROVE  /\ Len(x) = limit
               /\ \E c \in S : /\ p.next_cursor = encode_cursor(c)
                               /\ \A r \in S : Newer(c, r) \/ \E i \in 1..Len(x) : x[i] = r
                               /\ \A i \in 1..Len(x) : ~Newer(c, x[i])
                               /\ \E r \in S : Newer(c, r)
    BY <2>0, <2>1, <2>7 DEF PageOf
  <2>8. x \in Seq(coll)
    BY <2>5, <2>6
  <2>9. /\ z \in Seq(coll) /\ Len(z) = Len(u) + Len(x) /\ Len(u) \in Nat /\ Len(x) \in Nat
        /\ \A i \in 1..Len(u) : i \in 1..Len(z) /\ z[i] = u[i]
        /\ \A i \in 1..Len(x) : Len(u) + i \in 1..Len(z) /\ z[Len(u) + i] = x[i]
        /\ \A i \in 1..Len(z) : i \in 1..Len(u) \/ (i - Len(u) \in 1..Len(x) /\ z[i] = x[i - Len(u)])
    <3>1. Joined(coll, u, x, z)
      BY <2>1, <2>3, <2>8, OneAfterTheOther
    <3>. QED  BY <3>1 DEF Joined
  <2>10. /\ \A i \in 1..Len(u) : u[i] \in coll
         /\ \A i \in 1..Len(x) : x[i] \in S /\ x[i] \in coll /\ Behind(x[i], w.cursor)
    BY <2>1, <2>3, <2>5, <2>6
  <2>11. v \in WalkStates(coll)
    BY <2>1, <2>6, <2>9 DEF WalkStates
  <2>12. \A i, j \in 1..Len(x) : x[i] = x[j] => i = j
    <3>. SUFFICES ASSUME NEW i \in 1..Len(x), NEW j \in 1..Len(x), x[i] = x[j] PROVE i = j
      OBVIOUS
    <3>1. ~Newer(x[i], x[i])
      BY <2>10, NewerIsOrder
    <3>2. ~(i < j) /\ ~(j < i)
      BY <2>6, <3>1
    <3>. QED  BY <2>9, <3>2
  <2>13. \A i, j \in 1..Len(z) : z[i] = z[j] => i = j
    <3>. SUFFICES ASSUME NEW i \in 1..Len(z), NEW j \in 1..Len(z), z[i] = z[j] PROVE i = j
      OBVIOUS
    <3>1. CASE i \in 1..Len(u) /\ j \in 1..Len(u)
      BY <2>3, <2>9, <3>1
    <3>2. CASE i \notin 1..Len(u) /\ j \notin 1..Len(u)
      <4>1. /\ i - Len(u) \in 1..Len(x) /\ z[i] = x[i - Len(u)]
            /\ j - Len(u) \in 1..Len(x) /\ z[j] = x[j - Len(u)]
        BY <2>9, <3>2
      <4>2. i - Len(u) = j - Len(u)
        BY <2>12, <4>1
      <4>. QED  BY <2>9, <4>2
    <3>3. CASE i \in 1..Len(u) /\ j \notin 1..Len(u)
      <4>1. z[i] = u[i] /\ j - Len(u) \in 1..Len(x) /\ z[j] = x[j - Len(u)]
        BY <2>9, <3>3
      <4>. QED  BY <2>3, <2>10, <3>3, <4>1
    <3>4. CASE i \notin 1..Len(u) /\ j \in 1..Len(u)
      <4>1. z[j] = u[j] /\ i - Len(u) \in 1..Len(x) /\ z[i] = x[i - Len(u)]
        BY <2>9, <3>4
      <4>. QED  BY <2>3, <2>10, <3>4, <4>1
    <3>. QED  BY <3>1, <3>2, <3>3, <3>4
  <2>14. ASSUME p.has_more
         PROVE  /\ Len(z) >= k /\ \A i \in 1..Len(z) : ~Behind(z[i], p.next_cursor)
                /\ \E r \in coll : Behind(r, p.next_cursor)
                /\ \A r \in S : Behind(r, p.next_cursor) \/ \E i \in 1..Len(x) : x[i] = r
    <3>1. PICK c \in S : /\ p.next_cursor = encode_cursor(c)
                         /\ \A r \in S : Newer(c, r) \/ \E i \in 1..Len(x) : x[i] = r
                         /\ \A i \in 1..Len(x) : ~Newer(c, x[i])
                         /\ \E r \in S : Newer(c, r)
      BY <2>7, <2>14
    <3>2. c \in coll /\ Behind(c, w.cursor)
      BY <2>1, <2>5
    <3>3. \A r : Behind(r, p.next_cursor) <=> Newer(c, r)
      <4>1. c.id \in Nat /\ encode_cursor(c).last_id = c.id /\ NoCursor.last_id = -1
        BY <3>2 DEF Collection, CollectionRow, encode_cursor, NoCursor
      <4>2. encode_cursor(c) # NoCursor
        BY <4>1
      <4>. QED  BY <3>1, <4>2 DEF Behind, Newer
    <3>4. Len(z) >= k
      BY <2>3, <2>5, <2>7, <2>9, <2>14
    <3>5. ASSUME NEW i \in 1..Len(u) PROVE ~Newer(c, u[i])
      <4>1. ~Behind(u[i], w.cursor) /\ u[i] \in coll
        BY <2>3, <2>10
      <4>2. PICK d \in coll : w.cursor = encode_cursor(d) /\ w.cursor # NoCursor
        BY <2>3, <4>1 DEF Cursors, Behind
      <4>3. Newer(d, c) /\ ~Newer(d, u[i])
        BY <3>2, <4>1, <4>2 DEF Behind, Newer
      <4>. QED  BY <3>2, <4>1, <4>2, <4>3, NewerIsOrder
    <3>6. \A i \in 1..Len(z) : ~Newer(c, z[i])
      BY <2>9, <3>1, <3>5
    <3>. QED  BY <2>5, <3>1, <3>3, <3>4, <3>6
  <2>15. ASSUME \A l \in 1..MaxPages : Cardinality(There(coll, l)) <= CANDIDATE_CEILING, NEW r \in Stays(coll)
         PROVE  (p.has_more /\ Behind(r, p.next_cursor)) \/ \E i \in 1..Len(z) : z[i] = r
    <3>1. CASE \E i \in 1..Len(u) : u[i] = r
      BY <2>9, <3>1
    <3>2. CASE Behind(r, w.cursor)
      <4>1. C = There(coll, k)
        BY <2>4, <2>15
      <4>2. r \in coll /\ r.from = 0 /\ r.till >= MaxPages /\ r.till \in Nat
        BY DEF Stays, Collection, CollectionRow
      <4>3. MaxPages \in Nat /\ 0 < k /\ k <= MaxPages /\ k \in Nat
        BY PagingAssumption
      <4>4. r \in There(coll, k)
        BY <4>2, <4>3 DEF There
      <4>5. r \in S
        BY <2>1, <3>2, <4>1, <4>4
      <4>6. (p.has_more /\ Behind(r, p.next_cursor)) \/ \E i \in 1..Len(x) : x[i] = r
        BY <2>6, <2>14, <4>5
      <4>. QED  BY <2>9, <4>6
    <3>. QED  BY <1>2, <2>1, <2>15, <3>1, <3>2 DEF WalkOK
  <2>. QED  BY <2>2, <2>11, <2>13, <2>14, <2>15 DEF WalkOK
<1>. QED  BY <1>1, <1>2

LEMMA TurnIs ==
    ASSUME NEW coll, Collection(coll), NEW asked, clamp_limit(asked) \in Nat \ {0},
           NEW k \in 1..MaxPages, NEW w \in WalkStates(coll)
    PROVE  Turn(coll, asked, k, w) \in WalkStates(coll)
<1>1. PICK R, C, limit, S, p : /\ R = There(coll, k) /\ C = Candidates(R) /\ limit = clamp_limit(asked)
                               /\ S = {r \in C : Behind(r, w.cursor)} /\ p = paginate(C, limit, w.cursor)
  OBVIOUS
<1>2. R \in SUBSET coll
  BY <1>1 DEF There
<1>3. Collection(R)
  BY <1>2, FS_Subset DEF Collection
<1>4. C \in SUBSET coll /\ S \in SUBSET coll
  BY <1>1, <1>2, <1>3, CandidatesAre
<1>5. PageOf(coll, S, limit, p)
  BY <1>1, <1>4, PageIs
<1>6. p.has_more \in BOOLEAN /\ p.items \in Seq(S) /\ p.next_cursor \in Cursors(coll)
  BY <1>5 DEF PageOf
<1>7. p.items \in Seq(coll) /\ w.items \in Seq(coll)
  BY <1>4, <1>6 DEF WalkStates
<1>8. PICK z : z = w.items \o p.items
  OBVIOUS
<1>9. z \in Seq(coll)
  BY <1>7, <1>8, ConcatProperties
<1>10. [items |-> z, has_more |-> p.has_more, cursor |-> p.next_cursor] \in WalkStates(coll)
  BY <1>6, <1>9 DEF WalkStates
<1>. QED  BY <1>1, <1>8, <1>10 DEF Turn

PagesRead(coll, asked) ==
    CHOOSE W : W = [k \in 0..MaxPages |-> IF k = 0 THEN Outset ELSE Turn(coll, asked, k, W[k - 1])]

LEMMA PagesAre == \A coll, asked : Pages(coll, asked) = PagesRead(coll, asked)[MaxPages]
  BY DEF Pages, PagesRead, Outset, Turn

LEMMA Reads ==
    ASSUME NEW coll, Collection(coll), NEW asked, clamp_limit(asked) \in Nat \ {0}, NEW W, W = PagesRead(coll, asked)
    PROVE  W[0] = Outset /\ \A k \in 1..MaxPages : W[k] = Turn(coll, asked, k, W[k - 1])
<1>. DEFINE T == WalkStates(coll)
            F == [p \in T \X (1..MaxPages) |-> Turn(coll, asked, p[2], p[1])]
            rule(V) == V = [k \in 0..MaxPages |-> IF k = 0 THEN Outset ELSE Turn(coll, asked, k, V[k - 1])]
            R == CHOOSE V : rule(V)
<1>1. MaxPages \in Nat
  BY PagingAssumption
<1>2. Outset \in T
  <2>1. << >> \in Seq(coll) /\ NoCursor \in Cursors(coll)
    BY DEF Cursors
  <2>. QED  BY <2>1 DEF Outset, WalkStates
<1>3. \A k \in 1..MaxPages, w \in T : Turn(coll, asked, k, w) \in T
  BY TurnIs
<1>4. F \in Advances(MaxPages, T)
  <2>. HIDE DEF T
  <2>. QED  BY <1>3 DEF Advances
<1>5. PICK f : IsRecursion(f, MaxPages, T, Outset, F)
  <2>. HIDE DEF T, F
  <2>. QED  BY <1>1, <1>2, <1>4, Recursion
<1>6. /\ f \in [0..MaxPages -> T] /\ f[0] = Outset
      /\ \A k \in 1..MaxPages : f[k] = F[<<f[k - 1], k>>]
  <2>. HIDE DEF T, F
  <2>. QED  BY <1>5 DEF IsRecursion
<1>7. \A k \in 1..MaxPages : k \in 0..MaxPages /\ k - 1 \in 0..MaxPages /\ k # 0
  BY <1>1
<1>8. \A k \in 1..MaxPages : f[k] = Turn(coll, asked, k, f[k - 1])
  <2>1. \A k \in 1..MaxPages, w \in T : F[<<w, k>>] = Turn(coll, asked, k, w)
    <3>. HIDE DEF T
    <3>. QED  OBVIOUS
  <2>. HIDE DEF T, F
  <2>. QED  BY <1>6, <1>7, <2>1
<1>9. rule(f)
  <2>1. f = [k \in 0..MaxPages |-> f[k]]
    <3>. HIDE DEF T
    <3>. QED  BY <1>6
  <2>2. \A k \in 0..MaxPages : k # 0 => k \in 1..MaxPages
    BY <1>1
  <2>. QED  BY <1>6, <1>8, <2>1, <2>2
<1>10. rule(R)
  <2>. HIDE DEF rule
  <2>. QED  BY <1>9, Zenon
<1>11. W = R
  BY DEF PagesRead
<1>. HIDE DEF R
<1>. QED  BY <1>1, <1>7, <1>10, <1>11

\* However rows come and go between the pages and whatever size was asked for, a walk
\* of a collection that has no more rows than the client may read pages ends, no row
\* comes twice, and what stays comes, unless the query cuts it off (api/pagination.py).
THEOREM PagesAreComplete ==
    ASSUME NEW coll, Collection(coll), Cardinality(coll) <= MaxPages,
           NEW asked, asked = {} \/ \E n \in Int : asked = {n}
    PROVE  Complete(coll, asked)
<1>1. clamp_limit(asked) \in Nat \ {0}
  <2>1. CASE asked = {}
    BY <2>1, PagingAssumption DEF clamp_limit
  <2>2. CASE asked # {}
    <3>1. PICK n \in Int : asked = {n}
      BY <2>2
    <3>2. (CHOOSE m \in asked : TRUE) = n
      BY <3>1
    <3>3. clamp_limit(asked) = IF n < 1 THEN 1 ELSE IF n > MAX_LIMIT THEN MAX_LIMIT ELSE n
      BY <2>2, <3>1, <3>2, PagingAssumption DEF clamp_limit
    <3>. QED  BY <3>3, PagingAssumption
  <2>. QED  BY <2>1, <2>2
<1>2. PICK W, M : W = PagesRead(coll, asked) /\ M = MaxPages
  OBVIOUS
<1>3. /\ M \in Nat \ {0} /\ W[0] = Outset /\ Pages(coll, asked) = W[M]
      /\ \A k \in 1..M : k \in 0..M /\ W[k] = Turn(coll, asked, k, W[k - 1])
  <2>1. M \in Nat \ {0} /\ \A k \in 1..M : k \in 0..M
    BY <1>2, PagingAssumption
  <2>2. W[0] = Outset
    BY <1>1, <1>2, Reads
  <2>3. \A k \in 1..M : W[k] = Turn(coll, asked, k, W[k - 1])
    BY <1>1, <1>2, Reads
  <2>. QED  BY <1>2, <2>1, <2>2, <2>3, PagesAre
<1>. DEFINE Good == {k \in 0..M : WalkOK(coll, k, W[k])}
<1>4. 0 \in Good
  <2>1. /\ Outset.items = << >> /\ Outset.cursor = NoCursor /\ Outset.has_more = TRUE
        /\ Outset \in WalkStates(coll) /\ Len(Outset.items) = 0
    <3>1. << >> \in Seq(coll) /\ NoCursor \in Cursors(coll)
      BY DEF Cursors
    <3>. QED  BY <3>1 DEF Outset, WalkStates
  <2>2. \A r : Behind(r, Outset.cursor)
    BY <2>1 DEF Behind
  <2>3. WalkOK(coll, 0, Outset)
    BY <2>1, <2>2 DEF WalkOK
  <2>. QED  BY <1>3, <2>3
<1>5. ASSUME NEW k \in 1..M, k - 1 \in Good PROVE k \in Good
  <2>1. PICK w : w = W[k - 1]
    OBVIOUS
  <2>2. WalkOK(coll, k - 1, w) /\ W[k] = Turn(coll, asked, k, w) /\ k \in 0..M
    BY <1>3, <1>5, <2>1
  <2>3. WalkOK(coll, k, Turn(coll, asked, k, w))
    BY <1>1, <1>2, <2>2, TurnKeeps
  <2>. QED  BY <2>2, <2>3
<1>6. M \in Good
  <2>1. M \in Nat /\ M \in 0..M /\ \A k \in 1..M : k - 1 \in Good => k \in Good
    BY <1>3, <1>5
  <2>. HIDE DEF Good
  <2>. QED  BY <1>4, <2>1, UpTo
<1>7. PICK w, n : w = W[M] /\ n = Len(w.items)
  OBVIOUS
<1>8. WalkOK(coll, M, w) /\ w = Pages(coll, asked)
  BY <1>3, <1>6, <1>7
<1>9. w.items \in Seq(coll) /\ n \in Nat /\ DOMAIN w.items = 1..n
      /\ \A i, j \in 1..n : w.items[i] = w.items[j] => i = j
  BY <1>7, <1>8 DEF WalkOK, WalkStates
<1>10. ~w.has_more
  <2>. SUFFICES ASSUME w.has_more PROVE FALSE
    OBVIOUS
  <2>1. PICK r \in coll : Behind(r, w.cursor)
    BY <1>3, <1>8 DEF WalkOK
  <2>2. n >= M /\ \A i \in 1..n : w.items[i] \in coll \ {r}
    BY <1>7, <1>8, <1>9, <2>1 DEF WalkOK
  <2>3. PICK f, T : f = [i \in 1..n |-> w.items[i]] /\ T = coll \ {r}
    OBVIOUS
  <2>4. f \in Injection(1..n, T)
    BY <1>9, <2>2, <2>3 DEF Injection, IsInjective
  <2>5. IsFiniteSet(1..n) /\ Cardinality(1..n) = n
    BY <1>9, FS_Interval
  <2>6. IsFiniteSet(T) /\ Cardinality(T) = Cardinality(coll) - 1 /\ Cardinality(coll) \in Nat
    BY <2>1, <2>3, FS_RemoveElement, FS_CardinalityType DEF Collection
  <2>7. n <= Cardinality(T)
    BY <2>4, <2>5, <2>6, FS_Injection
  <2>. QED  BY <1>2, <1>3, <1>9, <2>2, <2>6, <2>7
<1>11. IsInjective(w.items)
  BY <1>9 DEF IsInjective
<1>12. ASSUME \A k \in 1..MaxPages : Cardinality(There(coll, k)) <= CANDIDATE_CEILING
       PROVE  {r \in coll : r.from = 0 /\ r.till >= MaxPages} \subseteq ToSet(w.items)
  <2>1. \A r \in Stays(coll) : \E i \in 1..n : w.items[i] = r
    BY <1>7, <1>8, <1>10, <1>12 DEF WalkOK
  <2>. QED  BY <1>9, <2>1 DEF Stays, ToSet
<1>. QED  BY <1>8, <1>10, <1>11, <1>12 DEF Complete

-----------------------------------------------------------------------------
(* The destination of an artifact, and the columns of it that are compared. *)

\* destination.toml keeps what the design says, whatever the target's defaults
\* (core/targets/destination.py).
THEOREM DestinationIsKept == \A design, section : DestinationKept(design, section)
<1>. SUFFICES ASSUME NEW design, NEW section PROVE DestinationKept(design, section)
  OBVIOUS
<1>1. PICK file, block : /\ file = _write_destination_toml_for_build(design, section)
                         /\ block = design.destination[1]
  OBVIOUS
<1>2. CASE design.destination = << >> \/ block.table = None
  <2>1. file = << >>
    BY <1>1, <1>2 DEF _write_destination_toml_for_build
  <2>. QED  BY <1>1, <2>1 DEF DestinationKept, read_destination_toml
<1>3. CASE design.destination # << >> /\ block.table # None
  <2>1. PICK d : d = [table    |-> block.table,
                      database |-> _render_optional_field(block.database, section.database),
                      schema   |-> _render_optional_field(block.schema, section.schema)]
    OBVIOUS
  <2>2. file = <<d>> /\ file # << >> /\ file[1] = d
    BY <1>1, <1>3, <2>1 DEF _write_destination_toml_for_build
  <2>3. /\ d.table = block.table /\ Or(d.database, section.database) = Or(block.database, section.database)
        /\ Or(d.schema, section.schema) = Or(block.schema, section.schema)
    BY <2>1 DEF Or, _render_optional_field
  <2>4. resolve_at_runtime(d, section) = resolve_at_runtime(block, section)
    BY <2>3 DEF resolve_at_runtime
  <2>5. read_destination_toml(file) = [refused |-> d.table = None, destination |-> file]
    BY <2>2 DEF read_destination_toml
  <2>6. PICK f : f = read_destination_toml(file)
    OBVIOUS
  <2>7. ~f.refused /\ f.destination = file
    <3>1. f.destination = file
      BY <2>5, <2>6
    <3>2. f.refused = (d.table = None)
      BY <2>5, <2>6
    <3>3. d.table # None
      BY <1>3, <2>3
    <3>. QED  BY <3>1, <3>2, <3>3
  <2>8. resolve_at_runtime(f.destination[1], section) = resolve_at_runtime(block, section)
    BY <2>2, <2>4, <2>7
  <2>. QED  BY <1>1, <2>6, <2>7, <2>8 DEF DestinationKept
<1>. QED  BY <1>2, <1>3

\* A list of columns with no name twice, in whatever spelling.
Listed(q) ==
    /\ \A i \in DOMAIN q : q[i] = [name |-> q[i].name, type |-> q[i].type] /\ q[i].name # None
    /\ \A i, j \in DOMAIN q : Upper(q[i].name) = Upper(q[j].name) => i = j
    /\ DOMAIN q \subseteq Nat

LastOf(r, D, n) == CHOOSE i \in D : r[i].name = n /\ \A j \in D : r[j].name = n => j <= i

LEMMA TypesByName ==
    ASSUME NEW q, Listed(q), NEW want, want = ByName(_normalize_columns(q))
    PROVE  /\ DOMAIN want = {Upper(q[i].name) : i \in DOMAIN q}
           /\ \A i \in DOMAIN q : want[Upper(q[i].name)] = q[i].type
<1>1. PICK D, r : D = DOMAIN q /\ r = _normalize_columns(q)
  OBVIOUS
<1>2. r = [i \in D |-> [q[i] EXCEPT !.name = Upper(@)]]
  <2>1. {j \in DOMAIN q : q[j].name # None} = D
    BY <1>1 DEF Listed
  <2>. QED  BY <1>1, <2>1 DEF _normalize_columns
<1>3. ASSUME NEW i \in D PROVE r[i].name = Upper(q[i].name) /\ r[i].type = q[i].type
  <2>1. PICK c, n : c = q[i] /\ n = Upper(c.name)
    OBVIOUS
  <2>2. c = [name |-> c.name, type |-> c.type]
    BY <1>1, <2>1 DEF Listed
  <2>3. r[i] = [c EXCEPT !.name = n]
    BY <1>2, <2>1
  <2>4. r[i] = [name |-> n, type |-> c.type]
    BY <2>2, <2>3
  <2>. QED  BY <2>1, <2>4
<1>4. DOMAIN r = D
  BY <1>2
<1>5. {r[i].name : i \in D} = {Upper(q[i].name) : i \in D}
  BY <1>3
<1>6. \A i, j \in D : r[j].name = r[i].name => j = i
  BY <1>1, <1>3 DEF Listed
<1>7. D \subseteq Nat
  BY <1>1 DEF Listed
<1>8. want = [n \in {r[i].name : i \in D} |->
                r[LastOf(r, D, n)].type]
  BY <1>1, <1>4 DEF ByName, LastOf
<1>9. ASSUME NEW i \in D PROVE want[Upper(q[i].name)] = q[i].type
  <2>1. PICK n : n = r[i].name
    OBVIOUS
  <2>2. r[i].name = n /\ \A j \in D : r[j].name = n => j <= i
    BY <1>6, <1>7, <2>1
  <2>3. LastOf(r, D, n) \in D /\ r[LastOf(r, D, n)].name = n
    BY <2>2 DEF LastOf
  <2>4. LastOf(r, D, n) = i
    BY <1>6, <2>1, <2>3
  <2>5. n \in {r[j].name : j \in D}
    BY <2>1
  <2>6. want[n] = r[LastOf(r, D, n)].type
    BY <1>8, <2>5
  <2>. QED  BY <1>3, <2>1, <2>4, <2>6
<1>. QED  BY <1>1, <1>5, <1>8, <1>9

\* Columns drift exactly if the two sides differ by more than spelling, order and names
\* of a family of types (core/deploy/preflight.py).
THEOREM DriftIsJudgedExactly ==
    ASSUME NEW expected, Listed(expected), NEW actual, Listed(actual)
    PROVE  DriftIsExact(expected, actual)
<1>1. PICK p, q, want, have, A, B :
          /\ p = _normalize_columns(expected) /\ q = _normalize_columns(actual)
          /\ want = ByName(p) /\ have = ByName(q) /\ A = DOMAIN expected /\ B = DOMAIN actual
  OBVIOUS
<1>2. /\ DOMAIN want = {Upper(expected[i].name) : i \in A}
      /\ \A i \in A : want[Upper(expected[i].name)] = expected[i].type
  BY <1>1, TypesByName
<1>3. /\ DOMAIN have = {Upper(actual[i].name) : i \in B}
      /\ \A i \in B : have[Upper(actual[i].name)] = actual[i].type
  BY <1>1, TypesByName
<1>4. _compare_columns(p, q) = {} <=>
         DOMAIN want = DOMAIN have /\ \A n \in DOMAIN want : _types_compatible(want[n], have[n])
  <2>1. PICK W, H : W = DOMAIN want /\ H = DOMAIN have
    OBVIOUS
  <2>2. _compare_columns(p, q) = {<<"missing_column", n>> : n \in W \ H}
            \cup {<<"extra_column", n>> : n \in H \ W}
            \cup {<<"type_mismatch", n>> : n \in {m \in W \cap H : ~_types_compatible(want[m], have[m])}}
    BY <1>1, <2>1 DEF _compare_columns
  <2>3. _compare_columns(p, q) = {} <=>
            W \ H = {} /\ H \ W = {} /\ {m \in W \cap H : ~_types_compatible(want[m], have[m])} = {}
    BY <2>2
  <2>4. W \ H = {} /\ H \ W = {} <=> W = H
    OBVIOUS
  <2>5. W = H => ({m \in W \cap H : ~_types_compatible(want[m], have[m])} = {}
                      <=> \A n \in W : _types_compatible(want[n], have[n]))
    OBVIOUS
  <2>. QED  BY <2>1, <2>3, <2>4, <2>5
<1>. DEFINE Fits(i, j) == /\ Upper(expected[i].name) = Upper(actual[j].name)
                          /\ _types_compatible(expected[i].type, actual[j].type)
<1>5. ASSUME DOMAIN want = DOMAIN have, \A n \in DOMAIN want : _types_compatible(want[n], have[n])
      PROVE  (\A i \in A : \E j \in B : Fits(i, j)) /\ (\A j \in B : \E i \in A : Fits(i, j))
  <2>1. ASSUME NEW i \in A PROVE \E j \in B : Fits(i, j)
    <3>1. PICK n : n = Upper(expected[i].name)
      OBVIOUS
    <3>2. n \in DOMAIN want /\ n \in DOMAIN have /\ want[n] = expected[i].type
      BY <1>2, <1>5, <3>1
    <3>3. PICK j \in B : n = Upper(actual[j].name)
      BY <1>3, <3>2
    <3>4. have[n] = actual[j].type
      BY <1>3, <3>3
    <3>. QED  BY <1>5, <3>1, <3>2, <3>3, <3>4
  <2>2. ASSUME NEW j \in B PROVE \E i \in A : Fits(i, j)
    <3>1. PICK n : n = Upper(actual[j].name)
      OBVIOUS
    <3>2. n \in DOMAIN want /\ n \in DOMAIN have /\ have[n] = actual[j].type
      BY <1>3, <1>5, <3>1
    <3>3. PICK i \in A : n = Upper(expected[i].name)
      BY <1>2, <3>2
    <3>4. want[n] = expected[i].type
      BY <1>2, <3>3
    <3>. QED  BY <1>5, <3>1, <3>2, <3>3, <3>4
  <2>. QED  BY <2>1, <2>2
<1>6. ASSUME \A i \in A : \E j \in B : Fits(i, j), \A j \in B : \E i \in A : Fits(i, j)
      PROVE  DOMAIN want = DOMAIN have /\ \A n \in DOMAIN want : _types_compatible(want[n], have[n])
  <2>1. ASSUME NEW n \in DOMAIN want PROVE n \in DOMAIN have /\ _types_compatible(want[n], have[n])
    <3>1. PICK i \in A : n = Upper(expected[i].name)
      BY <1>2, <2>1
    <3>2. PICK j \in B : Fits(i, j)
      BY <1>6
    <3>3. n = Upper(actual[j].name) /\ want[n] = expected[i].type /\ have[n] = actual[j].type
      BY <1>2, <1>3, <3>1, <3>2
    <3>. QED  BY <1>3, <3>2, <3>3
  <2>2. ASSUME NEW n \in DOMAIN have PROVE n \in DOMAIN want
    <3>1. PICK j \in B : n = Upper(actual[j].name)
      BY <1>3, <2>2
    <3>2. PICK i \in A : Fits(i, j)
      BY <1>6
    <3>. QED  BY <1>2, <3>1, <3>2
  <2>. QED  BY <2>1, <2>2
<1>7. ToSet(expected) = {expected[i] : i \in A} /\ ToSet(actual) = {actual[j] : j \in B}
  BY <1>1 DEF ToSet
<1>. HIDE DEF Fits
<1>8. _compare_columns(p, q) = {} <=>
         (\A i \in A : \E j \in B : Fits(i, j)) /\ (\A j \in B : \E i \in A : Fits(i, j))
  BY <1>4, <1>5, <1>6
<1>. QED  BY <1>1, <1>7, <1>8 DEF Fits, DriftIsExact

\* A destination that passes verification passes pre-flight (core/deploy/verifier.py and
\* preflight.py): a deploy that succeeded can be repeated.
THEOREM RedeployAlwaysPasses == \A design, catalog, granted : RedeployPasses(design, catalog, granted)
<1>. SUFFICES ASSUME NEW design, NEW catalog, NEW granted, verify_failures(design, catalog, granted) = {}
              PROVE  preflight_drift(design, catalog, TRUE) = {}
  BY DEF RedeployPasses
<1>1. PICK e : e = _expected_destinations_from_design(design)
  OBVIOUS
<1>2. expected_destinations_from_build(design) = e
  BY <1>1 DEF expected_destinations_from_build
<1>3. ~e.raised
  BY <1>2 DEF verify_failures
<1>4. ASSUME NEW row \in e.rows PROVE ColumnDrift(catalog, row) = {}
  <2>1. PICK Found : Found = IF row.at \notin DOMAIN catalog THEN {<<"no_table", row.at.table>>}
                             ELSE ColumnDrift(catalog, row)
                                  \cup (IF row.at \in granted THEN {} ELSE {<<"grants", row.at.table>>})
    OBVIOUS
  <2>2. Found \subseteq verify_failures(design, catalog, granted)
    BY <1>2, <1>3, <2>1 DEF verify_failures
  <2>3. Found = {}
    BY <2>2
  <2>. QED  BY <2>1, <2>3
<1>. QED  BY <1>1, <1>3, <1>4 DEF preflight_drift

-----------------------------------------------------------------------------
(* The inputs of the runs satisfy what the theorems assume.                 *)

LEMMA TablesAreCollections ==
    ASSUME MaxPages >= 4, NEW coll \in Tables
    PROVE  Collection(coll) /\ Cardinality(coll) <= MaxPages
<1>1. MaxPages \in Nat
  BY PagingAssumption
<1>2. PICK t : /\ coll = {[id |-> i, at |-> t[i][1], from |-> t[i][2], till |-> t[i][3]] : i \in 1..4}
               /\ t \in [1..4 -> {w \in (1..2) \X (0..2) \X {1, 2, MaxPages} : w[2] < w[3]}]
  BY DEF Tables
<1>3. \A i \in 1..4 : t[i][1] \in Nat /\ t[i][2] \in Nat /\ t[i][3] \in Nat
  BY <1>1, <1>2
<1>4. PICK f : f = [i \in 1..4 |-> [id |-> i, at |-> t[i][1], from |-> t[i][2], till |-> t[i][3]]]
  OBVIOUS
<1>5. coll = {f[i] : i \in 1..4}
  BY <1>2, <1>4
<1>6. IsFiniteSet(1..4) /\ Cardinality(1..4) = 4
  <2>1. 1 \in Int /\ 4 \in Int /\ ~(1 > 4) /\ 4 - 1 + 1 = 4
    OBVIOUS
  <2>. QED  BY <2>1, FS_Interval
<1>7. IsFiniteSet(coll) /\ Cardinality(coll) <= 4
  BY <1>5, <1>6, ImageIsFinite
<1>8. coll \subseteq CollectionRow /\ \A i \in 1..4 : f[i].id = i
  BY <1>3, <1>4, <1>5 DEF CollectionRow
<1>9. Cardinality(coll) \in Nat
  BY <1>7, FS_CardinalityType
<1>. QED  BY <1>1, <1>5, <1>7, <1>8, <1>9 DEF Collection

LEMMA ListsAreListed == \A q \in ColumnLists : Listed(q)
<1>1. \A q \in ColumnLists : \A i \in DOMAIN q :
         /\ q[i] = [name |-> q[i].name, type |-> q[i].type] /\ q[i].name \in {"id", "ID", "at"}
         /\ DOMAIN q \subseteq 1..2
  BY DEF ColumnLists
<1>2. \A q \in ColumnLists : \A i, j \in DOMAIN q : Upper(q[i].name) = Upper(q[j].name) => i = j
  BY DEF ColumnLists
<1>. QED  BY <1>1, <1>2 DEF Listed, None

-----------------------------------------------------------------------------
(* The invariants of MCAlgorithms: each scene has inputs of one kind.        *)

LEMMA Scenes ==
    /\ GraphInput => input.scene = "graph"
    /\ FileInput => input.scene = "file"
    /\ GateInput => input.scene = "gate"
    /\ PagesInput => input.scene = "pages"
    /\ TomlInput => input.scene = "toml"
    /\ ColumnsInput => input.scene = "columns"
    /\ DeployInput => input.scene = "deploy"
<1>1. GraphInput => input.scene = "graph"
  BY DEF GraphInput
<1>2. FileInput => input.scene = "file"
  BY DEF FileInput
<1>3. GateInput => input.scene = "gate"
  BY DEF GateInput
<1>4. PagesInput => input.scene = "pages"
  BY DEF PagesInput
<1>5. TomlInput => input.scene = "toml"
  BY DEF TomlInput
<1>6. ColumnsInput => input.scene = "columns"
  BY DEF ColumnsInput
<1>7. DeployInput => input.scene = "deploy"
  BY DEF DeployInput
<1>. QED  BY <1>1, <1>2, <1>3, <1>4, <1>5, <1>6, <1>7

LEMMA InputOf ==
    ASSUME AlgorithmsInit
    PROVE  /\ input.scene = "graph" => GraphInput
           /\ input.scene = "file" => FileInput
           /\ input.scene = "gate" => GateInput
           /\ input.scene = "pages" => PagesInput
           /\ input.scene = "columns" => ColumnsInput
  BY Scenes DEF AlgorithmsInit

LEMMA GraphInputs ==
    ASSUME AlgorithmsInit, input.scene = "graph"
    PROVE  input.deps \in [Steps -> SUBSET Nat]
<1>0. PICK g \in Graphs : input.deps = g
  BY InputOf DEF GraphInput
<1>1. PICK d \in [Steps -> SUBSET Steps], unknown \in {{}, {N + 1}} : input.deps = [d EXCEPT ![N] = @ \cup unknown]
  BY <1>0 DEF Graphs
<1>2. Steps \subseteq Nat /\ unknown \subseteq Nat
  BY StepsFinite DEF Steps
<1>. QED  BY <1>1, <1>2

LEMMA FileInputs ==
    ASSUME AlgorithmsInit, input.scene = "file", N >= 3
    PROVE  Ids(input.file) \subseteq Steps /\ \E X : input.file.steps \in Seq(X)
<1>1. PICK f \in GraphFiles \cup ComponentFiles : input.file = f
  BY InputOf DEF FileInput
<1>2. DOMAIN f.steps = 1..3 /\ \A i \in 1..3 : f.steps[i].id \in 1..3
  <2>1. CASE f \in GraphFiles
    <3>1. PICK ids \in {<<1, 2, 3>>, <<3, 1, 2>>, <<1, 2, 1>>}, dep \in [FileSteps -> SUBSET (FileSteps \cup {N + 1})] :
              f = [steps |-> [i \in FileSteps |-> SqlStep(ids[i], dep[i])], cron |-> TRUE]
      BY <2>1 DEF GraphFiles
    <3>2. f.steps = [i \in 1..3 |-> SqlStep(ids[i], dep[i])]
      BY <3>1 DEF FileSteps
    <3>3. \A i \in 1..3 : ids[i] \in 1..3
      BY <3>1
    <3>. QED  BY <3>2, <3>3 DEF SqlStep
  <2>2. CASE f \in ComponentFiles
    <3>1. PICK c, cron : f = [steps |-> [i \in FileSteps |-> [id |-> i, deps |-> {}, type |-> c[i][1],
                                                              component |-> c[i][2]]], cron |-> cron]
      BY <2>2 DEF ComponentFiles
    <3>. QED  BY <3>1 DEF FileSteps
  <2>. QED  BY <2>1, <2>2
<1>3. Ids(f) \subseteq Steps
  <2>1. 1..3 \subseteq Steps
    BY StepsFinite DEF Steps
  <2>. QED  BY <1>2, <2>1 DEF Ids
<1>4. f.steps \in Seq({f.steps[i] : i \in 1..3})
  <2>1. PICK q, X : q = f.steps /\ X = {f.steps[i] : i \in 1..3}
    OBVIOUS
  <2>2. \E g : q = [i \in 1..3 |-> g[i]]
    <3>1. CASE f \in GraphFiles
      <4>1. PICK ids \in {<<1, 2, 3>>, <<3, 1, 2>>, <<1, 2, 1>>}, dep \in [FileSteps -> SUBSET (FileSteps \cup {N + 1})] :
                f = [steps |-> [i \in FileSteps |-> SqlStep(ids[i], dep[i])], cron |-> TRUE]
        BY <3>1 DEF GraphFiles
      <4>2. PICK g : g = [i \in 1..3 |-> SqlStep(ids[i], dep[i])]
        OBVIOUS
      <4>3. q = g
        BY <2>1, <4>1, <4>2 DEF FileSteps
      <4>4. q = [i \in 1..3 |-> g[i]]
        BY <4>2, <4>3
      <4>. QED  BY <4>4
    <3>2. CASE f \in ComponentFiles
      <4>1. PICK c, cron : f = [steps |-> [i \in FileSteps |-> [id |-> i, deps |-> {}, type |-> c[i][1],
                                                                component |-> c[i][2]]], cron |-> cron]
        BY <3>2 DEF ComponentFiles
      <4>2. PICK g : g = [i \in 1..3 |-> [id |-> i, deps |-> {}, type |-> c[i][1], component |-> c[i][2]]]
        OBVIOUS
      <4>3. q = g
        BY <2>1, <4>1, <4>2 DEF FileSteps
      <4>4. q = [i \in 1..3 |-> g[i]]
        BY <4>2, <4>3
      <4>. QED  BY <4>4
    <3>. QED  BY <1>1, <3>1, <3>2
  <2>3. q \in [1..3 -> X]
    <3>1. PICK g : q = [i \in 1..3 |-> g[i]]
      BY <2>2
    <3>2. X = {q[i] : i \in 1..3}
      BY <2>1
    <3>. QED  BY <3>1, <3>2
  <2>4. q \in Seq(X)
    <3>1. 3 \in Nat
      OBVIOUS
    <3>2. \E n \in Nat : q \in [1..n -> X]
      BY <2>3, <3>1
    <3>. QED  BY <3>2, SeqDef
  <2>. QED  BY <2>1, <2>4
<1>. QED  BY <1>1, <1>3, <1>4

LEMMA OtherInputs ==
    ASSUME AlgorithmsInit
    PROVE  /\ input.scene = "gate" => input.tool \in Tools /\ input.command \in Commands
           /\ input.scene = "pages" => input.rows \in Tables /\ input.asked \in {{}, {0}, {1}, {3}}
           /\ input.scene = "columns" => input.expected \in ColumnLists /\ input.actual \in ColumnLists
<1>1. input.scene = "gate" => input.tool \in Tools /\ input.command \in Commands
  BY InputOf DEF GateInput
<1>2. input.scene = "pages" => input.rows \in Tables /\ input.asked \in {{}, {0}, {1}, {3}}
  BY InputOf DEF PagesInput
<1>3. input.scene = "columns" => input.expected \in ColumnLists /\ input.actual \in ColumnLists
  BY InputOf DEF ColumnsInput
<1>. QED  BY <1>1, <1>2, <1>3

\* What a pipeline and a destination are worth, on every input of the runs, whatever
\* the number of steps (pipeline_dag.py, pipeline_schema.py, destination.py, preflight.py,
\* verifier.py).
THEOREM DefinitionsAreSound ==
    ASSUME N >= 3
    PROVE  AlgorithmsSpec => []DefinitionsSound
<1>1. AlgorithmsInit => DefinitionsSound
  <2>. SUFFICES ASSUME AlgorithmsInit PROVE DefinitionsSound
    OBVIOUS
  <2>1. DagAlgorithms
    <3>. SUFFICES ASSUME input.scene = "graph" PROVE DagAlgorithms
      BY DEF DagAlgorithms
    <3>1. input.deps \in [Steps -> SUBSET Nat]
      BY GraphInputs
    <3>. QED  BY <3>1, DagIsExact DEF DagAlgorithms
  <2>2. LoadedRuns
    <3>. SUFFICES ASSUME input.scene = "file" PROVE LoadedRuns
      BY DEF LoadedRuns
    <3>1. PICK X : input.file.steps \in Seq(X)
      BY FileInputs
    <3>2. Ids(input.file) \subseteq Steps
      BY FileInputs
    <3>. QED  BY <3>1, <3>2, LoadedIsRunnable DEF LoadedRuns
  <2>3. DestinationsSound
    <3>1. input.scene = "columns" => DriftIsExact(input.expected, input.actual)
      BY OtherInputs, ListsAreListed, DriftIsJudgedExactly
    <3>. QED  BY <3>1, DestinationIsKept, RedeployAlwaysPasses DEF DestinationsSound
  <2>. QED  BY <2>1, <2>2, <2>3 DEF DefinitionsSound
<1>2. DefinitionsSound /\ [AlgorithmsNext]_input => DefinitionsSound'
  BY DEF AlgorithmsNext, DefinitionsSound, LoadedRuns, DagAlgorithms, DestinationsSound
<1>. QED  BY <1>1, <1>2, PTL DEF AlgorithmsSpec

\* What the permission gate answers and what the pages of a collection bring, on every
\* input of the runs (core/agents/permissions.py, api/pagination.py).
THEOREM AnswersAreExact ==
    ASSUME MaxPages >= 4
    PROVE  AlgorithmsSpec => []AnswersExact
<1>1. AlgorithmsInit => AnswersExact
  <2>. SUFFICES ASSUME AlgorithmsInit PROVE AnswersExact
    OBVIOUS
  <2>1. input.scene = "gate" => AuthorityShrinks(input.tool, input.command, input.approver)
    BY OtherInputs, ClampingBounds
  <2>2. ASSUME input.scene = "pages" PROVE Complete(input.rows, input.asked)
    <3>1. input.rows \in Tables /\ (input.asked = {} \/ \E n \in Int : input.asked = {n})
      BY <2>2, OtherInputs
    <3>. QED  BY <3>1, TablesAreCollections, PagesAreComplete
  <2>. QED  BY <2>1, <2>2 DEF AnswersExact
<1>2. AnswersExact /\ [AlgorithmsNext]_input => AnswersExact'
  BY DEF AlgorithmsNext, AnswersExact
<1>. QED  BY <1>1, <1>2, PTL DEF AlgorithmsSpec

=============================================================================
