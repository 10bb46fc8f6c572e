----------------------- MODULE TransactionBlock_proofs -----------------------
(***************************************************************************)
(* Proofs about TransactionBlock: what a block leaves in the database is   *)
(* what its body was told, statements and lock waits are bounded, and      *)
(* locks are kept, for any queries, timeouts and depth of savepoints.      *)
(***************************************************************************)
EXTENDS TransactionBlock, SequenceTheorems, TLAPS

\* The statement timeout of a transaction with a deadline is never lifted, nor will the
\* end of a savepoint bring back a time at which it was.
LimitInv ==
  LET b == block
  IN  /\ b.pc = "waiting" => b.kind = "transaction" /\ b.postgres /\ b.key \in Keys
      /\ b.pc # "idle" /\ b.kind = "transaction" /\ b.postgres /\ b.default > 0 =>
           b.limit > 0 /\ \A i \in 1..Len(b.saved) : b.saved[i].limit > 0

\* The locks taken outside of savepoints are older than all savepoints.
LockInv ==
  LET b == block
  IN  b.pc # "idle" =>
        b.kept \subseteq b.locks /\ \A i \in 1..Len(b.saved) : b.kept \subseteq b.saved[i].locks

\* What the body was told is what the server has, now and at each savepoint, and nobody
\* goes on in an aborted transaction without having caught the error.
ToldInv ==
  LET b == block
      Told(expected, done) == expected \subseteq done /\ done \subseteq expected \cup b.disputed
  IN  /\ b.pc # "idle" =>
           /\ Told(b.expected, b.done)
           /\ \A i \in 1..Len(b.saved) : Told(b.outer[i], b.saved[i].done)
           /\ b.verdict = "none"
      /\ b.pc = "body" /\ b.failed => b.caught
      /\ b.pc = "waiting" => ~b.failed

\* What a step of the body never touches.
SameBlock(b, c) ==
  /\ b.api = c.api /\ b.postgres = c.postgres /\ b.kind = c.kind /\ b.default = c.default
  /\ b.verdict = c.verdict

IInv == TypeOK /\ LimitInv /\ LockInv /\ ToldInv /\ CommittedAsTold /\ RunsWithinTimeout

(***************************************************************************)
(* Timeouts                                                                *)
(***************************************************************************)

\* A limit in milliseconds is never rounded down to 0, which would switch it off.
LEMMA MillisPositive == ASSUME NEW t \in Nat PROVE Millis(t) \in Nat \ {0}
  BY DEF Millis

\* A timeout that is not positive leaves the limit alone; a positive one replaces it.
LEMMA SetLocalBounds ==
  ASSUME NEW t \in Nat, NEW limit \in Nat
  PROVE  /\ SetLocal(t, limit) \in Nat
         /\ limit > 0 => SetLocal(t, limit) > 0
         /\ t > 0 => SetLocal(t, limit) = Millis(t) /\ Millis(t) > 0
  BY MillisPositive DEF SetLocal

\* A query's timeout is a number, its own or that of the block.
LEMMA ResolveType ==
  ASSUME NEW q \in Queries, NEW default \in Nat
  PROVE  Resolve(q.timeout, default) \in Nat
  BY BlockAssumption DEF Resolve

\* Preparing a statement keeps a server limit switched on, and bounds the statement.
LEMMA PreparedBounds ==
  ASSUME NEW b \in Blocks, NEW q \in Queries, b.n < MaxStatements
  PROVE  /\ LimitFor(b, q) \in Nat
         /\ b.limit > 0 => LimitFor(b, q) > 0
         /\ ClientLimit(b, q) \in Nat
         /\ Tighter(LimitFor(b, q), ClientLimit(b, q)) \in Nat
         /\ Prepared(b, q) \in Blocks
<1>1. Resolve(q.timeout, b.default) \in Nat
  BY ResolveType DEF Blocks
<1>2. LimitFor(b, q) \in Nat /\ (b.limit > 0 => LimitFor(b, q) > 0)
  <2>1. q.setting # None => q.setting \in Nat \ {0}
    BY BlockAssumption
  <2> DEFINE own == IF q.setting # None THEN q.setting ELSE b.limit
  <2>2. own \in Nat /\ (b.limit > 0 => own > 0)
    BY <2>1 DEF Blocks
  <2> QED
    BY <1>1, <2>2, SetLocalBounds DEF LimitFor
<1>3. ClientLimit(b, q) \in Nat
  BY <1>1, SetLocalBounds DEF ClientLimit
<1>4. Tighter(LimitFor(b, q), ClientLimit(b, q)) \in Nat
  BY <1>2, <1>3 DEF Tighter
<1>5. b.n + 1 \in 0..MaxStatements
  BY BlockAssumption DEF Blocks
<1> QED
  BY <1>1, <1>2, <1>3, <1>4, <1>5 DEF Prepared, Blocks

\* The bound a statement runs under is as tight as the timeout that was asked for.
LEMMA PreparedRuns ==
  ASSUME NEW b \in Blocks, NEW q \in Queries,
         Resolve(q.timeout, b.default) > 0, b.api = "async" \/ b.postgres
  PROVE  LET bound == Tighter(LimitFor(b, q), ClientLimit(b, q))
         IN  bound > 0 /\ bound <= Millis(Resolve(q.timeout, b.default))
<1> DEFINE t == Resolve(q.timeout, b.default)
           own == IF q.setting # None THEN q.setting ELSE b.limit
<1>1. t \in Nat /\ t > 0 /\ Millis(t) \in Nat \ {0}
  BY ResolveType, MillisPositive DEF Blocks
<1>2. own \in Nat
  BY BlockAssumption DEF Blocks
<1>3. CASE b.api = "async"
  <2>1. LimitFor(b, q) = own
    BY <1>3 DEF LimitFor
  <2>2. ClientLimit(b, q) = Millis(t)
    BY <1>1, <1>3 DEF ClientLimit, SetLocal
  <2> HIDE DEF t, own
  <2> QED
    BY <1>1, <1>2, <2>1, <2>2 DEF Tighter, t
<1>4. CASE b.api # "async"
  <2>1. b.api = "sync" /\ b.postgres
    BY <1>4 DEF Blocks, Apis
  <2>2. LimitFor(b, q) = Millis(t) /\ ClientLimit(b, q) = 0
    BY <1>1, <2>1 DEF LimitFor, ClientLimit, SetLocal
  <2> HIDE DEF t, own
  <2> QED
    BY <1>1, <2>2 DEF Tighter, t
<1> QED
  BY <1>3, <1>4

(***************************************************************************)
(* Savepoints                                                              *)
(***************************************************************************)

\* A savepoint is put in front of the older ones.
LEMMA Pushed ==
  ASSUME NEW S, NEW s \in Seq(S), NEW x \in S
  PROVE  /\ <<x>> \o s \in Seq(S)
         /\ Len(<<x>> \o s) = Len(s) + 1
         /\ \A i \in 1..Len(<<x>> \o s) : (<<x>> \o s)[i] = IF i = 1 THEN x ELSE s[i - 1]
<1>1. <<x>> \in Seq(S) /\ Len(<<x>>) = 1 /\ <<x>>[1] = x
  OBVIOUS
<1> QED
  BY <1>1, ConcatProperties, LenProperties

\* The newest savepoint is the first, and the others move up when it is gone.
LEMMA Popped ==
  ASSUME NEW S, NEW s \in Seq(S), s # <<>>
  PROVE  /\ Len(s) \in Nat \ {0}
         /\ Head(s) = s[1] /\ s[1] \in S
         /\ Tail(s) \in Seq(S)
         /\ Len(Tail(s)) = Len(s) - 1
         /\ \A i \in 1..Len(Tail(s)) : i + 1 \in 1..Len(s) /\ Tail(s)[i] = s[i + 1]
<1>1. Len(s) \in Nat \ {0}
  BY EmptySeq
<1>2. Head(s) = s[1]
  OBVIOUS
<1> QED
  BY <1>1, <1>2, HeadTailProperties

(***************************************************************************)
(* The inductive invariant                                                 *)
(***************************************************************************)

\* A block that has just begun has its type.
LEMMA FreshType ==
  ASSUME NEW api \in Apis, NEW postgres \in BOOLEAN, NEW kind \in Kinds
  PROVE  /\ Fresh(api, postgres, kind) \in Blocks
         /\ Fresh(api, postgres, kind).saved = <<>> /\ Fresh(api, postgres, kind).outer = <<>>
<1>1. <<>> \in Seq(Savepoints) /\ <<>> \in Seq(SUBSET Statements)
  BY EmptySeq
<1>2. 0 \in 0..MaxStatements /\ [asked |-> 0, bound |-> 0] \in [asked : Nat, bound : Nat]
  BY BlockAssumption
<1> QED
  BY <1>1, <1>2 DEF Fresh, Blocks

\* Nothing has been begun.
LEMMA InitIInv == Init => IInv
<1> SUFFICES ASSUME Init PROVE IInv
  OBVIOUS
<1>1. PICK api \in Apis, postgres \in BOOLEAN : block = Fresh(api, postgres, "transaction")
  BY DEF Init
<1>2. TypeOK
  BY <1>1, BlockAssumption DEF Init, TypeOK, Blocks, Fresh, Kinds, Statements
<1>3. LimitInv /\ LockInv /\ ToldInv
  BY <1>1 DEF LimitInv, LockInv, ToldInv, Fresh
<1>4. CommittedAsTold /\ RunsWithinTimeout
  BY <1>1 DEF CommittedAsTold, RunsWithinTimeout, Fresh
<1> QED
  BY <1>2, <1>3, <1>4 DEF IInv

\* A transaction is entered: nothing of the block before is left.
LEMMA EnterTransactionInv ==
  ASSUME IInv, NEW timeout \in Timeouts, NEW lockTimeout \in LockTimeouts,
         EnterTransaction(timeout, lockTimeout)
  PROVE  IInv'
<1> USE DEF IInv, Becomes
<1>1. Resolve(timeout, DefaultTimeout) \in Nat /\ Resolve(lockTimeout, 0) \in Nat
  BY BlockAssumption DEF Resolve
<1>2. block \in Blocks /\ block.api \in Apis /\ block.postgres \in BOOLEAN
  BY DEF TypeOK, Blocks
<1> DEFINE t == Resolve(timeout, DefaultTimeout)
           u == Resolve(lockTimeout, 0)
           limit == IF block.postgres THEN SetLocal(t, 0) ELSE 0
           lockLimit == IF block.postgres THEN SetLocal(u, 0) ELSE 0
           f == Fresh(block.api, block.postgres, "transaction")
           b == [f EXCEPT
                   !.pc = "body", !.tx = "open", !.default = t, !.limit = limit,
                   !.lockLimit = lockLimit]
<1>3. block' = b /\ others' = others
  BY DEF EnterTransaction
<1>4. limit \in Nat /\ lockLimit \in Nat /\ (block.postgres /\ t > 0 => limit > 0)
  BY <1>1, SetLocalBounds
<1>5. t \in Nat
  BY <1>1
<1>6. f \in Blocks /\ f.saved = <<>> /\ f.outer = <<>>
  BY <1>2, FreshType DEF Kinds
<1> HIDE DEF t, u, f, limit, lockLimit
<1>7. b \in Blocks /\ b.saved = <<>> /\ b.outer = <<>>
  BY <1>4, <1>5, <1>6 DEF Blocks
<1>8. TypeOK'
  BY <1>3, <1>7, BlockAssumption DEF TypeOK
<1>9. LimitInv' /\ LockInv' /\ ToldInv' /\ CommittedAsTold' /\ RunsWithinTimeout'
  BY <1>3, <1>4 DEF LimitInv, LockInv, ToldInv, CommittedAsTold, RunsWithinTimeout, Fresh, f
<1> QED
  BY <1>8, <1>9

\* A scope of the executor is entered, or a one-shot call begins.
LEMMA EnterScopeInv ==
  ASSUME IInv, NEW kind \in Kinds, NEW timeout \in Timeouts, EnterScope(kind, timeout)
  PROVE  IInv'
<1> USE DEF IInv, Becomes
<1>1. Resolve(timeout, DefaultTimeout) \in Nat
  BY BlockAssumption DEF Resolve
<1>2. block \in Blocks /\ block.api \in Apis /\ block.postgres \in BOOLEAN
  BY DEF TypeOK, Blocks
<1> DEFINE t == Resolve(timeout, DefaultTimeout)
           f == Fresh(block.api, block.postgres, kind)
           b == [f EXCEPT
                   !.pc = "body", !.tx = "open", !.default = t]
<1>3. block' = b /\ others' = others /\ kind # "transaction"
  BY DEF EnterScope
<1>4. t \in Nat
  BY <1>1
<1>5. f \in Blocks /\ f.saved = <<>> /\ f.outer = <<>>
  BY <1>2, FreshType
<1> HIDE DEF t, f
<1>6. b \in Blocks /\ b.saved = <<>> /\ b.outer = <<>>
  BY <1>4, <1>5 DEF Blocks
<1>7. TypeOK'
  BY <1>3, <1>6, BlockAssumption DEF TypeOK
<1>8. LimitInv' /\ LockInv' /\ ToldInv' /\ CommittedAsTold' /\ RunsWithinTimeout'
  BY <1>3 DEF LimitInv, LockInv, ToldInv, CommittedAsTold, RunsWithinTimeout, Fresh, f
<1> QED
  BY <1>7, <1>8

\* A statement takes effect, or fails.
LEMMA ExecuteInv ==
  ASSUME IInv, NEW q \in Queries, NEW rows \in 0..2,
         Execute(q, rows) \/ ExecuteFails(q)
  PROVE  IInv'
<1> USE DEF IInv, Becomes
<1>1. block \in Blocks
  BY DEF TypeOK
<1> DEFINE b == Prepared(block, q)
<1>2. MayExecute(q) /\ block.pc = "body" /\ ~block.failed /\ block.n < MaxStatements
  BY <1>1, BlockAssumption DEF Execute, ExecuteFails, MayExecute, Blocks, Kinds
<1>3. b \in Blocks /\ (block.limit > 0 => b.limit > 0)
  BY <1>1, <1>2, PreparedBounds DEF Prepared, Blocks
<1>4. /\ SameBlock(b, block) /\ b.caught = block.caught /\ b.disputed = block.disputed
      /\ b.pc = block.pc /\ b.saved = block.saved /\ b.outer = block.outer
      /\ b.failed = block.failed /\ b.expected = block.expected /\ b.done = block.done
      /\ b.locks = block.locks /\ b.kept = block.kept
  BY <1>1 DEF Prepared, Blocks, SameBlock
<1>5. b.ran.asked > 0 /\ (b.api = "async" \/ b.postgres) =>
        b.ran.bound > 0 /\ b.ran.bound <= Millis(b.ran.asked)
  BY <1>1, PreparedRuns DEF Prepared, Blocks
<1>6. b.n \in Statements
  <2>1. b.n = block.n + 1
    BY <1>1 DEF Prepared, Blocks
  <2>2. block.n \in Nat
    BY <1>1 DEF Blocks
  <2> QED
    BY <1>2, <2>1, <2>2, BlockAssumption DEF Statements
<1> HIDE DEF b
<1>7. CASE block' = [b EXCEPT !.done = @ \cup {b.n}, !.expected = @ \cup {b.n}]
  <2>1. block' \in Blocks
    BY <1>3, <1>6, <1>7 DEF Blocks
  <2>2. /\ SameBlock(block', b) /\ block'.caught = b.caught /\ block'.disputed = b.disputed
        /\ block'.pc = b.pc /\ block'.saved = b.saved /\ block'.outer = b.outer
        /\ block'.failed = b.failed /\ block'.limit = b.limit /\ block'.ran = b.ran
        /\ block'.expected = b.expected \cup {b.n} /\ block'.done = b.done \cup {b.n}
        /\ block'.locks = b.locks /\ block'.kept = b.kept
    BY <1>3, <1>7 DEF Blocks, SameBlock
  <2> QED
    BY <1>2, <1>3, <1>4, <1>5, <2>1, <2>2
    DEF TypeOK, LimitInv, LockInv, ToldInv, CommittedAsTold, RunsWithinTimeout, SameBlock,
        Execute, ExecuteFails
<1>8. CASE block' = [b EXCEPT !.pc = "raising", !.done = @ \cup {b.n}, !.disputed = @ \cup {b.n}]
  <2>1. block' \in Blocks
    BY <1>3, <1>6, <1>8 DEF Blocks
  <2>2. /\ SameBlock(block', b) /\ block'.caught = b.caught
        /\ block'.disputed = b.disputed \cup {b.n}
        /\ block'.pc = "raising" /\ block'.saved = b.saved /\ block'.outer = b.outer
        /\ block'.failed = b.failed /\ block'.limit = b.limit /\ block'.ran = b.ran
        /\ block'.expected = b.expected /\ block'.done = b.done \cup {b.n}
        /\ block'.locks = b.locks /\ block'.kept = b.kept
    BY <1>3, <1>8 DEF Blocks, SameBlock
  <2> QED
    BY <1>2, <1>3, <1>4, <1>5, <2>1, <2>2
    DEF TypeOK, LimitInv, LockInv, ToldInv, CommittedAsTold, RunsWithinTimeout, SameBlock,
        Execute, ExecuteFails
<1>9. CASE block' = [b EXCEPT !.pc = "raising", !.failed = TRUE]
  <2>1. block' \in Blocks
    BY <1>3, <1>9 DEF Blocks
  <2>2. /\ SameBlock(block', b) /\ block'.caught = b.caught /\ block'.disputed = b.disputed
        /\ block'.pc = "raising" /\ block'.saved = b.saved /\ block'.outer = b.outer
        /\ block'.limit = b.limit /\ block'.ran = b.ran
        /\ block'.expected = b.expected /\ block'.done = b.done
        /\ block'.locks = b.locks /\ block'.kept = b.kept
    BY <1>3, <1>9 DEF Blocks, SameBlock
  <2> QED
    BY <1>2, <1>3, <1>4, <1>5, <2>1, <2>2
    DEF TypeOK, LimitInv, LockInv, ToldInv, CommittedAsTold, RunsWithinTimeout, SameBlock,
        Execute, ExecuteFails
<1> QED
  BY <1>3, <1>7, <1>8, <1>9 DEF Execute, ExecuteFails, Raising, Aborted, Blocks, b

\* A statement is refused by the server, or not sent at all.
LEMMA FailInv ==
  ASSUME IInv, (\E q \in Queries : SettingsRefused(q)) \/ Refused
  PROVE  IInv'
<1> USE DEF IInv, Becomes
<1>1. block \in Blocks
  BY DEF TypeOK
<1>2. block.pc = "body" /\ block' = [block EXCEPT !.pc = "raising"] /\ others' = others
  BY DEF SettingsRefused, Refused, MayExecute, Raising
<1>3. block' \in Blocks
  BY <1>1, <1>2 DEF Blocks
<1>4. /\ SameBlock(block', block) /\ block'.caught = block.caught
      /\ block'.disputed = block.disputed /\ block'.kept = block.kept /\ block'.pc = "raising"
      /\ block'.limit = block.limit /\ block'.ran = block.ran
      /\ block'.expected = block.expected /\ block'.done = block.done
      /\ block'.locks = block.locks
      /\ block'.saved = block.saved /\ block'.outer = block.outer
  BY <1>1, <1>2 DEF Blocks, SameBlock
<1> QED
  BY <1>2, <1>3, <1>4
  DEF TypeOK, LimitInv, LockInv, ToldInv, CommittedAsTold, RunsWithinTimeout, SameBlock

\* A savepoint is set, released, or rolled back to.
LEMMA SavepointInv ==
  ASSUME IInv, EnterSavepoint \/ LeaveSavepoint \/ SavepointUndone
  PROVE  IInv'
<1> USE DEF IInv, Becomes
<1>1. /\ block \in Blocks
      /\ block.saved \in Seq(Savepoints) /\ block.outer \in Seq(SUBSET Statements)
      /\ Len(block.saved) = Len(block.outer) /\ Len(block.saved) <= MaxDepth
      /\ Len(block.saved) \in Nat
  BY LenProperties DEF TypeOK, Blocks
<1>2. CASE EnterSavepoint
  <2> DEFINE s == [limit |-> block.limit, done |-> block.done, locks |-> block.locks]
             saved == <<s>> \o block.saved
             outer == <<block.expected>> \o block.outer
  <2>1. /\ block' = [block EXCEPT !.saved = saved, !.outer = outer] /\ others' = others
        /\ block.pc = "body" /\ Len(block.saved) < MaxDepth
    BY <1>2 DEF EnterSavepoint
  <2>2. s \in Savepoints /\ block.expected \in SUBSET Statements
    BY <1>1 DEF Blocks, Savepoints
  <2>3. /\ saved \in Seq(Savepoints) /\ Len(saved) = Len(block.saved) + 1
        /\ \A i \in 1..Len(saved) : saved[i] = IF i = 1 THEN s ELSE block.saved[i - 1]
    BY <1>1, <2>2, Pushed
  <2>4. /\ outer \in Seq(SUBSET Statements) /\ Len(outer) = Len(saved)
        /\ \A i \in 1..Len(saved) : outer[i] = IF i = 1 THEN block.expected
                                                        ELSE block.outer[i - 1]
    BY <1>1, <2>2, <2>3, Pushed
  <2> HIDE DEF saved, outer
  <2>5. block' \in Blocks
    BY <1>1, <2>1, <2>3, <2>4 DEF Blocks
  <2>6. /\ SameBlock(block', block) /\ block'.caught = block.caught
        /\ block'.disputed = block.disputed /\ block'.kept = block.kept /\ block'.pc = block.pc
        /\ block'.failed = block.failed /\ block'.limit = block.limit /\ block'.ran = block.ran
        /\ block'.expected = block.expected /\ block'.done = block.done
        /\ block'.locks = block.locks /\ block'.saved = saved /\ block'.outer = outer
    BY <1>1, <2>1 DEF Blocks, SameBlock
  <2>7. \A i \in 1..Len(saved) : i = 1 \/ i - 1 \in 1..Len(block.saved)
    BY <1>1, <2>3
  <2>8. TypeOK'
    BY <1>1, <2>1, <2>3, <2>4, <2>5, <2>6, BlockAssumption DEF TypeOK
  <2>9. LimitInv'
    BY <2>1, <2>3, <2>6, <2>7 DEF LimitInv, SameBlock
  <2>10. LockInv'
    BY <2>1, <2>3, <2>6, <2>7 DEF LockInv, SameBlock
  <2>11. ToldInv'
    <3>1. ASSUME NEW i \in 1..Len(saved)
          PROVE  /\ outer[i] \subseteq saved[i].done
                 /\ saved[i].done \subseteq outer[i] \cup block.disputed
      <4>1. CASE i = 1
        BY <2>1, <2>3, <2>4, <4>1 DEF ToldInv
      <4>2. CASE i # 1
        BY <2>1, <2>3, <2>4, <2>7, <4>2 DEF ToldInv
      <4> QED
        BY <4>1, <4>2
    <3> QED
      BY <2>1, <2>6, <3>1 DEF ToldInv, SameBlock
  <2>12. CommittedAsTold' /\ RunsWithinTimeout'
    BY <2>1, <2>6 DEF CommittedAsTold, RunsWithinTimeout, SameBlock, ToldInv
  <2> QED
    BY <2>8, <2>9, <2>10, <2>11, <2>12
<1>3. CASE LeaveSavepoint \/ SavepointUndone
  <2> DEFINE saved == Tail(block.saved)
             outer == Tail(block.outer)
             s == block.saved[1]
  <2>1. block.saved # <<>> /\ block.outer # <<>>
    BY <1>1, <1>3, EmptySeq DEF LeaveSavepoint, SavepointUndone
  <2>2. /\ Len(block.saved) \in Nat \ {0}
        /\ Head(block.saved) = s /\ s \in Savepoints
        /\ saved \in Seq(Savepoints) /\ Len(saved) = Len(block.saved) - 1
        /\ \A i \in 1..Len(saved) : i + 1 \in 1..Len(block.saved) /\ saved[i] = block.saved[i + 1]
    BY <1>1, <2>1, Popped
  <2>3. /\ Head(block.outer) = block.outer[1] /\ block.outer[1] \in SUBSET Statements
        /\ outer \in Seq(SUBSET Statements) /\ Len(outer) = Len(saved)
        /\ \A i \in 1..Len(saved) : outer[i] = block.outer[i + 1]
    BY <1>1, <2>1, <2>2, Popped
  <2>4. 1 \in 1..Len(block.saved)
    BY <2>2
  <2> HIDE DEF saved, outer, s
  <2>5. CASE LeaveSavepoint
    <3> DEFINE b == [block EXCEPT !.saved = saved, !.outer = outer]
    <3>1. /\ block.pc = "body" /\ others' = others
          /\ \/ ~block.failed /\ block' = b
             \/ block' = [b EXCEPT !.pc = "raising"]
      BY <2>5 DEF LeaveSavepoint, Raising, saved, outer
    <3>2. b \in Blocks /\ b.pc = block.pc /\ b.failed = block.failed
      BY <1>1, <2>2, <2>3 DEF Blocks
    <3>3. /\ SameBlock(b, block) /\ b.caught = block.caught
          /\ b.disputed = block.disputed /\ b.kept = block.kept
          /\ b.limit = block.limit /\ b.ran = block.ran
          /\ b.expected = block.expected /\ b.done = block.done
          /\ b.locks = block.locks /\ b.saved = saved /\ b.outer = outer
      BY <1>1 DEF Blocks, SameBlock
    <3> HIDE DEF b
    <3>4. block' \in Blocks
      <4>1. [b EXCEPT !.pc = "raising"] \in Blocks
        BY <3>2 DEF Blocks
      <4> QED
        BY <3>1, <3>2, <4>1
    <3>5. /\ SameBlock(block', b) /\ block'.caught = b.caught
          /\ block'.disputed = b.disputed /\ block'.kept = b.kept
          /\ \/ block'.pc = "raising"
             \/ block'.pc = "body" /\ ~block'.failed
          /\ block'.limit = b.limit /\ block'.ran = b.ran
          /\ block'.expected = b.expected /\ block'.done = b.done
          /\ block'.locks = b.locks /\ block'.saved = b.saved /\ block'.outer = b.outer
      BY <3>1, <3>2 DEF Blocks, SameBlock
    <3>6. TypeOK'
      BY <1>1, <2>2, <2>3, <3>1, <3>3, <3>4, <3>5, BlockAssumption DEF TypeOK
    <3>7. LimitInv'
      BY <2>2, <3>1, <3>3, <3>5 DEF LimitInv, SameBlock
    <3>8. LockInv'
      BY <2>2, <3>1, <3>3, <3>5 DEF LockInv, SameBlock
    <3>9. ToldInv'
      BY <2>2, <2>3, <3>1, <3>3, <3>5 DEF ToldInv, SameBlock
    <3>10. CommittedAsTold' /\ RunsWithinTimeout'
      BY <3>1, <3>3, <3>5 DEF ToldInv, CommittedAsTold, RunsWithinTimeout, SameBlock
    <3> QED
      BY <3>6, <3>7, <3>8, <3>9, <3>10
  <2>6. CASE SavepointUndone
    <3>1. /\ block.pc = "raising" /\ others' = others
          /\ block' = [block EXCEPT
                         !.saved = saved, !.outer = outer, !.failed = FALSE, !.limit = s.limit,
                         !.done = s.done, !.locks = s.locks, !.expected = block.outer[1]]
      BY <2>2, <2>3, <2>6 DEF SavepointUndone, saved, outer
    <3>2. s.limit \in Nat /\ s.done \in SUBSET Statements /\ s.locks \in SUBSET Keys
      BY <2>2 DEF Savepoints
    <3>3. block' \in Blocks
      BY <1>1, <2>2, <2>3, <3>1, <3>2 DEF Blocks
    <3>4. /\ SameBlock(block', block) /\ block'.caught = block.caught
          /\ block'.disputed = block.disputed /\ block'.kept = block.kept
          /\ block'.pc = "raising" /\ block'.limit = s.limit /\ block'.ran = block.ran
          /\ block'.expected = block.outer[1] /\ block'.done = s.done
          /\ block'.locks = s.locks /\ block'.saved = saved /\ block'.outer = outer
      BY <1>1, <3>1 DEF Blocks, SameBlock
    <3>5. TypeOK'
      BY <1>1, <2>2, <2>3, <3>1, <3>3, <3>4, BlockAssumption DEF TypeOK
    <3>6. LimitInv'
      BY <2>2, <2>4, <3>1, <3>4 DEF LimitInv, SameBlock, s
    <3>7. LockInv'
      BY <2>2, <2>4, <3>1, <3>4 DEF LockInv, SameBlock, s
    <3>8. ToldInv'
      BY <2>2, <2>3, <2>4, <3>1, <3>4 DEF ToldInv, SameBlock, s
    <3>9. CommittedAsTold' /\ RunsWithinTimeout'
      BY <3>1, <3>4 DEF ToldInv, CommittedAsTold, RunsWithinTimeout, SameBlock
    <3> QED
      BY <3>5, <3>6, <3>7, <3>8, <3>9
  <2> QED
    BY <1>3, <2>5, <2>6
<1> QED
  BY <1>2, <1>3

\* A lock is taken, waited for, or the wait is ended; other sessions lock and unlock.
LEMMA LockInvStep ==
  ASSUME IInv,
         \/ \E k \in Keys : Lock(k) \/ TryLock(k)
         \/ LockGranted \/ LockWaitCut \/ DeadlockBroken \/ OthersLock
  PROVE  IInv'
<1> USE DEF IInv, Becomes
<1>1. block \in Blocks /\ Len(block.saved) \in Nat
  BY LenProperties DEF TypeOK, Blocks
<1>2. ASSUME NEW j \in Keys, block' = Granted(block, j), others' = others,
             block.pc \in {"body", "waiting"}, ~block.failed
      PROVE  IInv'
  <2> DEFINE kept == IF block.saved = <<>> THEN block.kept \cup {j} ELSE block.kept
  <2>1. block' = [block EXCEPT !.pc = "body", !.key = None, !.locks = @ \cup {j}, !.kept = kept]
    BY <1>1, <1>2 DEF Granted
  <2>2. kept \in SUBSET Keys
    BY <1>1 DEF Blocks
  <2>3. block.saved = <<>> => Len(block.saved) = 0
    OBVIOUS
  <2>4. \/ block.saved = <<>> /\ kept = block.kept \cup {j}
        \/ block.saved # <<>> /\ kept = block.kept
    OBVIOUS
  <2> HIDE DEF kept
  <2>5. block' \in Blocks
    BY <1>1, <2>1, <2>2 DEF Blocks
  <2>6. /\ SameBlock(block', block) /\ block'.caught = block.caught
        /\ block'.disputed = block.disputed /\ block'.kept = kept /\ block'.pc = "body"
        /\ block'.failed = block.failed /\ block'.limit = block.limit /\ block'.ran = block.ran
        /\ block'.expected = block.expected /\ block'.done = block.done
        /\ block'.locks = block.locks \cup {j}
        /\ block'.saved = block.saved /\ block'.outer = block.outer
    BY <1>1, <2>1 DEF Blocks, SameBlock
  <2>7. TypeOK' /\ LimitInv' /\ ToldInv' /\ CommittedAsTold' /\ RunsWithinTimeout'
    BY <1>2, <2>5, <2>6 DEF TypeOK, LimitInv, ToldInv, CommittedAsTold, RunsWithinTimeout, SameBlock
  <2>8. LockInv'
    BY <1>1, <1>2, <2>3, <2>4, <2>6 DEF LockInv
  <2> QED
    BY <2>7, <2>8
<1>3. ASSUME block' = [Aborted(block) EXCEPT !.key = None], others' = others, block.pc = "waiting"
      PROVE  IInv'
  <2>1. block' = [block EXCEPT !.pc = "raising", !.failed = TRUE, !.key = None]
    BY <1>1, <1>3 DEF Aborted, Raising
  <2>2. block' \in Blocks
    BY <1>1, <2>1 DEF Blocks
  <2>3. /\ SameBlock(block', block) /\ block'.caught = block.caught
        /\ block'.disputed = block.disputed /\ block'.kept = block.kept /\ block'.pc = "raising"
        /\ block'.limit = block.limit /\ block'.ran = block.ran
        /\ block'.expected = block.expected /\ block'.done = block.done
        /\ block'.locks = block.locks
        /\ block'.saved = block.saved /\ block'.outer = block.outer
    BY <1>1, <2>1 DEF Blocks, SameBlock
  <2> QED
    BY <1>3, <2>2, <2>3
    DEF TypeOK, LimitInv, LockInv, ToldInv, CommittedAsTold, RunsWithinTimeout, SameBlock
<1>4. ASSUME NEW k \in Keys, Lock(k) \/ TryLock(k)
      PROVE  IInv'
  <2>1. CASE block' = Granted(block, k)
    BY <1>2, <1>4, <2>1 DEF Lock, TryLock, MayLock
  <2>2. CASE block' = [block EXCEPT !.pc = "waiting", !.key = k]
    <3>1. /\ block' \in Blocks /\ others' = others
          /\ block.pc = "body" /\ block.kind = "transaction" /\ block.postgres /\ ~block.failed
      BY <1>1, <1>4, <2>2 DEF Blocks, Lock, TryLock, MayLock
    <3>2. /\ SameBlock(block', block) /\ block'.caught = block.caught
          /\ block'.disputed = block.disputed /\ block'.kept = block.kept
          /\ block'.failed = block.failed /\ block'.pc = "waiting" /\ block'.key = k
          /\ block'.limit = block.limit /\ block'.ran = block.ran
          /\ block'.expected = block.expected /\ block'.done = block.done
          /\ block'.locks = block.locks
          /\ block'.saved = block.saved /\ block'.outer = block.outer
      BY <1>1, <2>2 DEF Blocks, SameBlock
    <3> QED
      BY <3>1, <3>2
      DEF TypeOK, LimitInv, LockInv, ToldInv, CommittedAsTold, RunsWithinTimeout, SameBlock
  <2> QED
    BY <1>4, <2>1, <2>2 DEF Lock, TryLock
<1>5. CASE LockGranted
  <2>1. block.pc = "waiting" /\ block' = Granted(block, block.key) /\ others' = others
    BY <1>5 DEF LockGranted
  <2>2. CASE block.key \in Keys
    BY <1>2, <2>1, <2>2 DEF ToldInv
  <2>3. CASE block.key \notin Keys
    BY <2>1, <2>3 DEF LimitInv
  <2> QED
    BY <2>2, <2>3
<1>6. CASE LockWaitCut
  BY <1>3, <1>6 DEF LockWaitCut
<1>7. CASE DeadlockBroken
  BY <1>3, <1>7 DEF DeadlockBroken
<1>8. CASE OthersLock
  BY <1>8 DEF OthersLock, TypeOK, LimitInv, LockInv, ToldInv, CommittedAsTold, RunsWithinTimeout
<1> QED
  BY <1>4, <1>5, <1>6, <1>7, <1>8

\* The body raises, or catches what was raised.
LEMMA RaiseInv ==
  ASSUME IInv, BodyRaises \/ Catch
  PROVE  IInv'
<1> USE DEF IInv, Becomes
<1>1. block \in Blocks
  BY DEF TypeOK
<1> DEFINE caught == IF block.pc = "raising" THEN block.caught \/ block.failed ELSE block.caught
           to == IF block.pc = "raising" THEN "body" ELSE "raising"
<1>2. /\ block' = [block EXCEPT !.pc = to, !.caught = caught] /\ others' = others
      /\ block.pc \in {"body", "raising"}
  <2>1. [block EXCEPT !.pc = "raising"] = [block EXCEPT !.pc = "raising", !.caught = block.caught]
    BY <1>1 DEF Blocks
  <2>2. CASE BodyRaises
    <3>1. block.pc = "body" /\ block' = [block EXCEPT !.pc = "raising"] /\ others' = others
      BY <2>2 DEF BodyRaises, Raising
    <3> QED
      BY <2>1, <3>1
  <2>3. CASE Catch
    BY <1>1, <2>3 DEF Catch
  <2> QED
    BY <2>2, <2>3
<1>3. caught \in BOOLEAN /\ to \in {"body", "raising"} /\ (to = "body" /\ block.failed => caught)
  BY <1>1 DEF Blocks
<1> HIDE DEF caught, to
<1>4. block' \in Blocks
  BY <1>1, <1>2, <1>3 DEF Blocks
<1>5. /\ SameBlock(block', block) /\ block'.caught = caught
      /\ block'.disputed = block.disputed /\ block'.kept = block.kept /\ block'.pc = to
      /\ block'.failed = block.failed /\ block'.limit = block.limit /\ block'.ran = block.ran
      /\ block'.expected = block.expected /\ block'.done = block.done
      /\ block'.locks = block.locks
      /\ block'.saved = block.saved /\ block'.outer = block.outer
  BY <1>1, <1>2 DEF Blocks, SameBlock
<1> QED
  BY <1>2, <1>3, <1>4, <1>5
  DEF TypeOK, LimitInv, LockInv, ToldInv, CommittedAsTold, RunsWithinTimeout, SameBlock

\* The block is left: COMMIT, ROLLBACK, or a close that rolls back.
LEMMA LeaveInv ==
  ASSUME IInv, Commit \/ CloseUncommitted \/ Rollback
  PROVE  IInv'
<1> USE DEF IInv, Becomes
<1>1. block \in Blocks
  BY DEF TypeOK
<1>2. PICK tx \in {"committed", "aborted"}, verdict \in {"returned", "raised"} :
        /\ block' = [block EXCEPT !.pc = "idle", !.locks = {}, !.limit = 0, !.tx = tx,
                                  !.verdict = verdict]
        /\ others' = others /\ block.pc # "idle"
        /\ verdict = "returned" =>
             /\ block.pc = "body"
             /\ tx = "aborted" => block.failed \/ block.kind = "fetch"
  <2>1. CASE Commit
    <3>1. CASE block.failed
      BY <2>1, <3>1 DEF Commit, Over
    <3>2. CASE ~block.failed
      BY <2>1, <3>2 DEF Commit, Over
    <3> QED
      BY <3>1, <3>2
  <2>2. CASE CloseUncommitted
    BY <2>2 DEF CloseUncommitted, Over
  <2>3. CASE Rollback
    BY <2>3 DEF Rollback, Over
  <2> QED
    BY <2>1, <2>2, <2>3
<1>3. block' \in Blocks
  BY <1>1, <1>2 DEF Blocks
<1>4. /\ block'.api = block.api /\ block'.postgres = block.postgres /\ block'.kind = block.kind
      /\ block'.caught = block.caught /\ block'.disputed = block.disputed
      /\ block'.pc = "idle" /\ block'.tx = tx /\ block'.verdict = verdict
      /\ block'.expected = block.expected /\ block'.done = block.done /\ block'.ran = block.ran
      /\ block'.saved = block.saved /\ block'.outer = block.outer
  BY <1>1, <1>2 DEF Blocks
<1> QED
  BY <1>2, <1>3, <1>4 DEF TypeOK, LimitInv, LockInv, ToldInv, CommittedAsTold, RunsWithinTimeout

\* Every step keeps the invariant.
LEMMA StepIInv == IInv /\ [Next]_vars => IInv'
<1> SUFFICES ASSUME IInv, [Next]_vars PROVE IInv'
  OBVIOUS
<1>1. ASSUME NEW timeout \in Timeouts, NEW lockTimeout \in LockTimeouts,
             EnterTransaction(timeout, lockTimeout)
      PROVE  IInv'
  BY <1>1, EnterTransactionInv
<1>2. ASSUME NEW kind \in Kinds, NEW timeout \in Timeouts, EnterScope(kind, timeout)
      PROVE  IInv'
  BY <1>2, EnterScopeInv
<1>3. ASSUME NEW q \in Queries, NEW rows \in 0..2, Execute(q, rows) \/ ExecuteFails(q)
      PROVE  IInv'
  BY <1>3, ExecuteInv
<1>4. CASE (\E q \in Queries : SettingsRefused(q)) \/ Refused
  BY <1>4, FailInv
<1>5. CASE EnterSavepoint \/ LeaveSavepoint \/ SavepointUndone
  BY <1>5, SavepointInv
<1>6. CASE \/ \E k \in Keys : Lock(k) \/ TryLock(k)
           \/ LockGranted \/ LockWaitCut \/ DeadlockBroken \/ OthersLock
  BY <1>6, LockInvStep
<1>7. CASE BodyRaises \/ Catch
  BY <1>7, RaiseInv
<1>8. CASE Commit \/ CloseUncommitted \/ Rollback
  BY <1>8, LeaveInv
<1>9. CASE UNCHANGED vars
  BY <1>9 DEF vars, IInv, TypeOK, LimitInv, LockInv, ToldInv, CommittedAsTold, RunsWithinTimeout
<1>10. 0 \in 0..2
  OBVIOUS
<1> QED
  BY <1>1, <1>2, <1>3, <1>4, <1>5, <1>6, <1>7, <1>8, <1>9, <1>10 DEF Next

\* The invariant holds throughout.
THEOREM Invariance == Spec => []IInv
  BY InitIInv, StepIInv, PTL DEF Spec

(***************************************************************************)
(* The theorems                                                            *)
(***************************************************************************)

\* Every variable has its type throughout.
THEOREM TypeCorrect == Spec => []TypeOK
<1>1. IInv => TypeOK
  BY DEF IInv
<1> QED
  BY <1>1, Invariance, PTL

\* What a block leaves in the database is what its body was told, through any nesting of
\* savepoints and whatever errors the body caught (connection.py, transaction.py).
THEOREM Truthful == Spec => []CommittedAsTold
<1>1. IInv => CommittedAsTold
  BY DEF IInv
<1> QED
  BY <1>1, Invariance, PTL

\* Every statement with a timeout runs under a limit at least as tight.
THEOREM Bounded == Spec => []RunsWithinTimeout
<1>1. IInv => RunsWithinTimeout
  BY DEF IInv
<1> QED
  BY <1>1, Invariance, PTL

\* In a transaction with a timeout the server ends every wait for an advisory lock.
THEOREM LockWaitsEnd == Spec => []LockWaitsBounded
<1>1. IInv => LockWaitsBounded
  BY DEF IInv, LimitInv, LockWaitsBounded
<1> QED
  BY <1>1, Invariance, PTL

\* No statement and no wait of a block with a timeout goes on for ever.
THEOREM Ends == Spec => []TimeoutsHold
  BY Bounded, LockWaitsEnd, PTL DEF TimeoutsHold

\* Locks taken outside savepoints are held until the block ends.
THEOREM LocksHeld == Spec => []LocksKept
<1>1. IInv => LocksKept
  BY DEF IInv, LockInv, LocksKept
<1> QED
  BY <1>1, Invariance, PTL
=============================================================================
