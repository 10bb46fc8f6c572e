------------------------ MODULE ConnectionUse_proofs ------------------------
(***************************************************************************)
(* Proofs about ConnectionUse: callers are told right, clean-ups are not   *)
(* disturbed and no connection is lost or counted twice, for any number of *)
(* tasks, connections and cancellations.                                   *)
(***************************************************************************)
EXTENDS ConnectionUse, FiniteSetTheorems, TLAPS

\* The awaits before the outcome of COMMIT.
Before == {"connecting", "beginning", "settings", "body", "committing"}

\* The awaits of a use that is over as far as the connection is concerned.
Without == {"idle", "connecting", "releasing", "releasing_again"}

Sound(r) ==
  \* What the caller is told of a write.
  /\ r.mode \in {"transaction", "write"} =>
       /\ r.verdict = "returned" => r.tx = "committed"
       /\ r.verdict = "failed" => r.tx # "committed" \/ r.cancels > 0
       /\ r.pc \in Before => r.tx # "committed"
  \* A shielded task is awaited by its owner, once more after a cancellation.
  /\ r.pc \in {"rollback_again", "releasing_again"} => r.cancels >= 1
  /\ r.rolling => r.pc \in {"rollback", "rollback_again"} \/ r.cancels >= 2
  /\ r.closing => r.pc \in {"releasing", "releasing_again"} \/ (r.pc = "idle" /\ r.cancels >= 2)
  \* A transaction cut in its body is on the way to the invalidation of its connection.
  /\ r.cut => r.cancels >= 1 /\ r.pc \notin Before
  /\ r.cut /\ r.pc = "rollback_again" => r.cancels >= 2
  /\ r.mode = "transaction" /\ r.cut /\ r.cancels = 1 =>
       r.pc \in {"rollback", "invalidating"} \/ r.conn # "live"
  \* A use has a connection until it is given back.
  /\ r.pc \notin Without \/ r.closing => r.conn # "none"
  /\ r.pc = "connecting" => r.conn = "none"
  /\ r.pc \in {"releasing", "releasing_again"} /\ ~r.closing => r.conn = "none"
  /\ r.pc = "closing" => r.mode # "transaction"

\* Connections of one use.
Count(r) == IF r.conn # "none" THEN 1 ELSE 0

IInv ==
  /\ TypeOK
  /\ \A u \in Users : Sound(use[u])

Leaking(r) == r.pc = "idle" /\ r.conn # "none" /\ ~r.closing

\* What a step may do to a use.
Fine(r, s) ==
  /\ r.mode = "transaction" /\ r.cut /\ r.cancels = 1 /\ r.conn # "none" /\ s.conn = "none" =>
       r.conn = "broken"
  /\ Leaking(s) /\ ~Leaking(r) =>
       r.pc \in {"enter_rollback", "aclosing"} /\ s.cancels > r.cancels

\* A step of u changes its use only, soundly, and accounts for its connection.
Stepped(u) ==
  LET r == use[u]
      s == use'[u]
  IN  /\ use' = [use EXCEPT ![u] = s]
      /\ s \in Uses /\ Sound(s) /\ Fine(r, s)
      /\ free' \in Nat /\ leaked' \in Nat
      /\ free' + leaked' + Count(s) = free + leaked + Count(r)

(***************************************************************************)
(* One step                                                                *)
(***************************************************************************)

\* A step that leaves the pool alone.
LEMMA BecomesStep ==
  ASSUME IInv, NEW u \in Users, NEW s \in Uses, Becomes(u, s), Sound(s), Fine(use[u], s),
         Count(s) = Count(use[u])
  PROVE  Stepped(u)
<1>1. use' = [use EXCEPT ![u] = s] /\ use'[u] = s /\ free' = free /\ leaked' = leaked
  BY DEF Becomes, IInv, TypeOK
<1>2. free \in Nat /\ leaked \in Nat /\ Count(s) \in Nat
  BY DEF IInv, TypeOK, Count
<1> QED
  BY <1>1, <1>2 DEF Stepped

\* The connection of a use that has one is given back.
LEMMA GivenBackStep ==
  ASSUME IInv, NEW u \in Users, NEW s \in Uses,
         use' = [use EXCEPT ![u] = s], free' = free + 1, leaked' = leaked,
         use[u].conn # "none", s.conn = "none", Sound(s), Fine(use[u], s)
  PROVE  Stepped(u)
<1>1. use'[u] = s /\ free \in Nat /\ leaked \in Nat
  BY DEF IInv, TypeOK
<1>2. Count(s) = 0 /\ Count(use[u]) = 1
  BY DEF Count
<1>3. free' \in Nat /\ leaked' \in Nat
  BY <1>1
<1>4. free' + leaked' + Count(s) = free + leaked + Count(use[u])
  BY <1>1, <1>2
<1> QED
  BY <1>1, <1>3, <1>4 DEF Stepped

\* A use on which only close() is left to be done.
Closable(r) ==
  /\ r.conn # "none" /\ ~r.closing
  /\ r.mode \in {"transaction", "write"} =>
       /\ r.verdict = "returned" => r.tx = "committed"
       /\ r.verdict = "failed" => r.tx # "committed" \/ r.cancels > 0
  /\ r.rolling => r.cancels >= 2
  /\ r.cut => r.cancels >= 1
  /\ r.mode = "transaction" /\ r.cut /\ r.cancels = 1 => r.conn = "broken"

\* Equal but for connection and transaction.
SameUse(s, r) ==
  /\ s.mode = r.mode /\ s.pc = r.pc /\ s.verdict = r.verdict /\ s.cancels = r.cancels
  /\ s.cut = r.cut /\ s.rolling = r.rolling /\ s.closing = r.closing

\* Rolling back what is open commits nothing and undoes no COMMIT.
LEMMA UndoneFields ==
  ASSUME NEW r \in Uses
  PROVE  /\ Undone(r) \in Uses /\ SameUse(Undone(r), r) /\ Undone(r).conn = r.conn
         /\ Undone(r).tx = "committed" <=> r.tx = "committed"
<1> DEFINE tx == IF r.tx = "active" THEN "aborted" ELSE r.tx
           s == [r EXCEPT !.tx = tx]
<1>1. Undone(r) = s
  BY DEF Undone
<1>2. tx \in {"none", "active", "committed", "aborted"} /\ (tx = "committed" <=> r.tx = "committed")
  BY DEF Uses
<1> HIDE DEF tx
<1>3. s \in Uses
  BY <1>2 DEF Uses
<1>4. SameUse(s, r) /\ s.conn = r.conn /\ s.tx = tx
  BY DEF Uses, SameUse
<1> HIDE DEF s
<1> QED
  BY <1>1, <1>2, <1>3, <1>4

\* A use that is ready for its close() stays so.
LEMMA UndoneClosable ==
  ASSUME NEW r \in Uses, Closable(r)
  PROVE  Undone(r) \in Uses /\ Closable(Undone(r))
  BY UndoneFields DEF Closable, SameUse

\* A use goes on to its close().
LEMMA ToCloseStep ==
  ASSUME IInv, NEW u \in Users, NEW r \in Uses, Closable(r), use[u].conn # "none",
         Becomes(u, ToClose(r))
  PROVE  Stepped(u)
<1> DEFINE pc == IF r.mode = "transaction" THEN "releasing" ELSE "closing"
           closing == IF r.mode = "transaction" THEN TRUE ELSE r.closing
           s == [r EXCEPT !.pc = pc, !.closing = closing]
<1>1. ToClose(r) = s
  <2>1. r = [r EXCEPT !.closing = r.closing]
    BY DEF Uses
  <2> QED
    BY <2>1 DEF ToClose, Uses
<1>2. \/ r.mode = "transaction" /\ pc = "releasing" /\ closing
      \/ r.mode # "transaction" /\ pc = "closing" /\ ~closing
  BY DEF Closable
<1>3. closing \in BOOLEAN /\ pc \in Awaits
  BY DEF Uses, Awaits
<1> HIDE DEF pc, closing
<1>4. s \in Uses
  BY <1>3 DEF Uses
<1>5. /\ s.mode = r.mode /\ s.conn = r.conn /\ s.verdict = r.verdict /\ s.cancels = r.cancels
      /\ s.cut = r.cut /\ s.rolling = r.rolling /\ s.closing = closing /\ s.tx = r.tx
      /\ s.pc = pc
  BY DEF Uses
<1> HIDE DEF s
<1>6. Sound(s)
  BY <1>2, <1>5 DEF Closable, Sound, Before, Without, Uses
<1>7. Fine(use[u], s) /\ Count(s) = Count(use[u])
  BY <1>2, <1>5 DEF Closable, Fine, Leaking, Count
<1> QED
  BY <1>1, <1>4, <1>6, <1>7, BecomesStep

\* A task goes on to the body, or fails on the way.
LEMMA EnterStep ==
  ASSUME IInv, NEW u \in Users,
         \/ NotAcquired(u) \/ Began(u) \/ BeginFails(u) \/ SettingsApplied(u)
         \/ SettingsFail(u) \/ EnterRolledBack(u)
  PROVE  Stepped(u)
<1> DEFINE r == use[u]
<1>1. r \in Uses /\ Sound(r)
  BY DEF IInv, TypeOK
<1>2. CASE NotAcquired(u)
  <2>1. r.pc = "connecting" /\ Becomes(u, [r EXCEPT !.pc = "idle", !.verdict = "failed"])
    BY <1>1, <1>2 DEF NotAcquired, Gone
  <2> DEFINE s == [r EXCEPT !.pc = "idle", !.verdict = "failed"]
  <2>2. Becomes(u, s)
    BY <2>1
  <2>3. s \in Uses
    BY <1>1, <2>1 DEF Uses, Awaits
  <2>4. /\ s.mode = r.mode /\ s.pc = "idle" /\ s.conn = r.conn /\ s.tx = r.tx
        /\ s.verdict = "failed" /\ s.cancels = r.cancels /\ s.cut = r.cut
        /\ s.rolling = r.rolling /\ s.closing = r.closing
    BY <1>1, <2>1 DEF Uses
  <2> HIDE DEF s
  <2>5. Sound(s) /\ Fine(r, s) /\ Count(s) = Count(r)
    BY <1>1, <2>1, <2>4 DEF Sound, Fine, Leaking, Count, Before, Without, Uses
  <2> QED
    BY <2>2, <2>3, <2>5, BecomesStep
<1>3. CASE Began(u)
  <2>1. r.pc = "beginning" /\ Becomes(u, [r EXCEPT !.pc = "settings", !.tx = "active"])
    BY <1>1, <1>3 DEF Began
  <2> DEFINE s == [r EXCEPT !.pc = "settings", !.tx = "active"]
  <2>2. Becomes(u, s)
    BY <2>1
  <2>3. s \in Uses
    BY <1>1, <2>1 DEF Uses, Awaits
  <2>4. /\ s.mode = r.mode /\ s.pc = "settings" /\ s.conn = r.conn /\ s.tx = "active"
        /\ s.verdict = r.verdict /\ s.cancels = r.cancels /\ s.cut = r.cut
        /\ s.rolling = r.rolling /\ s.closing = r.closing
    BY <1>1, <2>1 DEF Uses
  <2> HIDE DEF s
  <2>5. Sound(s) /\ Fine(r, s) /\ Count(s) = Count(r)
    BY <1>1, <2>1, <2>4 DEF Sound, Fine, Leaking, Count, Before, Without, Uses
  <2> QED
    BY <2>2, <2>3, <2>5, BecomesStep
<1>4. CASE BeginFails(u)
  <2>1. PICK conn \in {"live", "broken"} :
          r.pc = "beginning" /\ Becomes(u, ToClose([r EXCEPT !.verdict = "failed", !.conn = conn]))
    BY <1>1, <1>4 DEF BeginFails
  <2> DEFINE s == [r EXCEPT !.verdict = "failed", !.conn = conn]
  <2>2. Becomes(u, ToClose(s))
    BY <2>1
  <2>3. s \in Uses /\ Closable(s) /\ r.conn # "none"
    BY <1>1, <2>1 DEF Closable, Sound, Before, Without, Uses, Awaits
  <2> HIDE DEF s
  <2> QED
    BY <1>1, <2>2, <2>3, ToCloseStep
<1>5. CASE SettingsApplied(u)
  <2>1. r.pc = "settings" /\ Becomes(u, [r EXCEPT !.pc = "body"])
    BY <1>1, <1>5 DEF SettingsApplied
  <2> DEFINE s == [r EXCEPT !.pc = "body"]
  <2>2. Becomes(u, s)
    BY <2>1
  <2>3. s \in Uses
    BY <1>1, <2>1 DEF Uses, Awaits
  <2>4. /\ s.mode = r.mode /\ s.pc = "body" /\ s.conn = r.conn /\ s.tx = r.tx
        /\ s.verdict = r.verdict /\ s.cancels = r.cancels /\ s.cut = r.cut
        /\ s.rolling = r.rolling /\ s.closing = r.closing
    BY <1>1, <2>1 DEF Uses
  <2> HIDE DEF s
  <2>5. Sound(s) /\ Fine(r, s) /\ Count(s) = Count(r)
    BY <1>1, <2>1, <2>4 DEF Sound, Fine, Leaking, Count, Before, Without, Uses
  <2> QED
    BY <2>2, <2>3, <2>5, BecomesStep
<1>6. CASE SettingsFail(u)
  <2>1. PICK conn \in {"live", "broken"} :
          r.pc = "settings" /\ Becomes(u, [r EXCEPT !.pc = "enter_rollback",
                              !.verdict = "failed", !.conn = conn])
    BY <1>1, <1>6 DEF SettingsFail
  <2> DEFINE s == [r EXCEPT !.pc = "enter_rollback", !.verdict = "failed", !.conn = conn]
  <2>2. Becomes(u, s)
    BY <2>1
  <2>3. s \in Uses
    BY <1>1, <2>1 DEF Uses, Awaits
  <2>4. /\ s.mode = r.mode /\ s.pc = "enter_rollback" /\ s.conn = conn /\ s.tx = r.tx
        /\ s.verdict = "failed" /\ s.cancels = r.cancels /\ s.cut = r.cut
        /\ s.rolling = r.rolling /\ s.closing = r.closing
    BY <1>1, <2>1 DEF Uses
  <2> HIDE DEF s
  <2>5. Sound(s) /\ Fine(r, s) /\ Count(s) = Count(r)
    BY <1>1, <2>1, <2>4 DEF Sound, Fine, Leaking, Count, Before, Without, Uses
  <2> QED
    BY <2>2, <2>3, <2>5, BecomesStep
<1>7. CASE EnterRolledBack(u)
  <2>1. r.pc = "enter_rollback" /\ Becomes(u, ToClose(Undone(r)))
    BY <1>1, <1>7 DEF EnterRolledBack
  <2>2. Closable(r)
    BY <1>1, <2>1 DEF Closable, Sound, Before, Without, Uses
  <2> QED
    BY <1>1, <2>1, <2>2, ToCloseStep, UndoneClosable DEF Closable
<1> QED
  BY <1>2, <1>3, <1>4, <1>5, <1>6, <1>7

\* The body and its COMMIT end.
LEMMA BodyStep ==
  ASSUME IInv, NEW u \in Users,
         \/ BodyReturns(u) \/ BodyRaises(u) \/ CommitSucceeds(u) \/ CommitLost(u)
         \/ CommitFails(u) \/ CommitRolledBack(u)
  PROVE  Stepped(u)
<1> DEFINE r == use[u]
<1>1. r \in Uses /\ Sound(r)
  BY DEF IInv, TypeOK
<1>2. CASE BodyReturns(u) /\ r.mode \in {"transaction", "write"}
  <2>1. r.pc = "body" /\ Becomes(u, [r EXCEPT !.pc = "committing"])
    BY <1>1, <1>2 DEF BodyReturns
  <2> DEFINE s == [r EXCEPT !.pc = "committing"]
  <2>2. Becomes(u, s)
    BY <2>1
  <2>3. s \in Uses
    BY <1>1, <2>1 DEF Uses, Awaits
  <2>4. /\ s.mode = r.mode /\ s.pc = "committing" /\ s.conn = r.conn /\ s.tx = r.tx
        /\ s.verdict = r.verdict /\ s.cancels = r.cancels /\ s.cut = r.cut
        /\ s.rolling = r.rolling /\ s.closing = r.closing
    BY <1>1, <2>1 DEF Uses
  <2> HIDE DEF s
  <2>5. Sound(s) /\ Fine(r, s) /\ Count(s) = Count(r)
    BY <1>1, <2>1, <2>4 DEF Sound, Fine, Leaking, Count, Before, Without, Uses
  <2> QED
    BY <2>2, <2>3, <2>5, BecomesStep
<1>3. CASE BodyReturns(u) /\ r.mode = "read"
  <2>1. r.pc = "body" /\ r.mode = "read"
            /\ Becomes(u, ToClose([r EXCEPT !.verdict = "returned"]))
    BY <1>1, <1>3 DEF BodyReturns
  <2> DEFINE s == [r EXCEPT !.verdict = "returned"]
  <2>2. Becomes(u, ToClose(s))
    BY <2>1
  <2>3. s \in Uses /\ Closable(s) /\ r.conn # "none"
    BY <1>1, <2>1 DEF Closable, Sound, Before, Without, Uses, Awaits
  <2> HIDE DEF s
  <2> QED
    BY <1>1, <2>2, <2>3, ToCloseStep
<1>4. CASE BodyReturns(u) /\ r.mode = "stream"
  <2>1. r.pc = "body" /\ r.mode = "stream"
            /\ Becomes(u, [r EXCEPT !.pc = "aclosing", !.verdict = "returned"])
    BY <1>1, <1>4 DEF BodyReturns
  <2> DEFINE s == [r EXCEPT !.pc = "aclosing", !.verdict = "returned"]
  <2>2. Becomes(u, s)
    BY <2>1
  <2>3. s \in Uses
    BY <1>1, <2>1 DEF Uses, Awaits
  <2>4. /\ s.mode = r.mode /\ s.pc = "aclosing" /\ s.conn = r.conn /\ s.tx = r.tx
        /\ s.verdict = "returned" /\ s.cancels = r.cancels /\ s.cut = r.cut
        /\ s.rolling = r.rolling /\ s.closing = r.closing
    BY <1>1, <2>1 DEF Uses
  <2> HIDE DEF s
  <2>5. Sound(s) /\ Fine(r, s) /\ Count(s) = Count(r)
    BY <1>1, <2>1, <2>4 DEF Sound, Fine, Leaking, Count, Before, Without, Uses
  <2> QED
    BY <2>2, <2>3, <2>5, BecomesStep
<1>5. CASE BodyRaises(u) /\ r.mode = "transaction"
  <2>1. PICK conn \in {"live", "broken"} :
          r.pc = "body" /\ Becomes(u, [r EXCEPT !.verdict = "failed", !.conn = conn,
                              !.pc = "rollback", !.rolling = TRUE])
    BY <1>1, <1>5 DEF BodyRaises, Unwinding, Uses, AllModes
  <2> DEFINE s == [r EXCEPT !.verdict = "failed", !.conn = conn, !.pc = "rollback",
                     !.rolling = TRUE]
  <2>2. Becomes(u, s)
    BY <2>1
  <2>3. s \in Uses
    BY <1>1, <2>1 DEF Uses, Awaits
  <2>4. /\ s.mode = r.mode /\ s.pc = "rollback" /\ s.conn = conn /\ s.tx = r.tx
        /\ s.verdict = "failed" /\ s.cancels = r.cancels /\ s.cut = r.cut
        /\ s.rolling = TRUE /\ s.closing = r.closing
    BY <1>1, <2>1 DEF Uses
  <2> HIDE DEF s
  <2>5. Sound(s) /\ Fine(r, s) /\ Count(s) = Count(r)
    BY <1>1, <2>1, <2>4 DEF Sound, Fine, Leaking, Count, Before, Without, Uses
  <2> QED
    BY <2>2, <2>3, <2>5, BecomesStep
<1>6. CASE BodyRaises(u) /\ r.mode = "stream"
  <2>1. PICK conn \in {"live", "broken"} :
          r.pc = "body" /\ Becomes(u, [r EXCEPT !.verdict = "failed", !.conn = conn,
                              !.pc = "aclosing"])
    BY <1>1, <1>6 DEF BodyRaises, Unwinding, Uses, AllModes
  <2> DEFINE s == [r EXCEPT !.verdict = "failed", !.conn = conn, !.pc = "aclosing"]
  <2>2. Becomes(u, s)
    BY <2>1
  <2>3. s \in Uses
    BY <1>1, <2>1 DEF Uses, Awaits
  <2>4. /\ s.mode = r.mode /\ s.pc = "aclosing" /\ s.conn = conn /\ s.tx = r.tx
        /\ s.verdict = "failed" /\ s.cancels = r.cancels /\ s.cut = r.cut
        /\ s.rolling = r.rolling /\ s.closing = r.closing
    BY <1>1, <2>1 DEF Uses
  <2> HIDE DEF s
  <2>5. Sound(s) /\ Fine(r, s) /\ Count(s) = Count(r)
    BY <1>1, <2>1, <2>4 DEF Sound, Fine, Leaking, Count, Before, Without, Uses
  <2> QED
    BY <2>2, <2>3, <2>5, BecomesStep
<1>7. CASE BodyRaises(u) /\ r.mode \notin {"transaction", "stream"}
  <2>1. PICK conn \in {"live", "broken"} :
          r.pc = "body" /\ Becomes(u, [r EXCEPT !.verdict = "failed", !.conn = conn,
                              !.pc = "undoing"])
    BY <1>1, <1>7 DEF BodyRaises, Unwinding, Uses, AllModes
  <2> DEFINE s == [r EXCEPT !.verdict = "failed", !.conn = conn, !.pc = "undoing"]
  <2>2. Becomes(u, s)
    BY <2>1
  <2>3. s \in Uses
    BY <1>1, <2>1 DEF Uses, Awaits
  <2>4. /\ s.mode = r.mode /\ s.pc = "undoing" /\ s.conn = conn /\ s.tx = r.tx
        /\ s.verdict = "failed" /\ s.cancels = r.cancels /\ s.cut = r.cut
        /\ s.rolling = r.rolling /\ s.closing = r.closing
    BY <1>1, <2>1 DEF Uses
  <2> HIDE DEF s
  <2>5. Sound(s) /\ Fine(r, s) /\ Count(s) = Count(r)
    BY <1>1, <2>1, <2>4 DEF Sound, Fine, Leaking, Count, Before, Without, Uses
  <2> QED
    BY <2>2, <2>3, <2>5, BecomesStep
<1>8. CASE CommitSucceeds(u)
  <2>1. r.pc = "committing"
            /\ Becomes(u, ToClose([r EXCEPT !.tx = "committed", !.verdict = "returned"]))
    BY <1>1, <1>8 DEF CommitSucceeds
  <2> DEFINE s == [r EXCEPT !.tx = "committed", !.verdict = "returned"]
  <2>2. Becomes(u, ToClose(s))
    BY <2>1
  <2>3. s \in Uses /\ Closable(s) /\ r.conn # "none"
    BY <1>1, <2>1 DEF Closable, Sound, Before, Without, Uses, Awaits
  <2> HIDE DEF s
  <2> QED
    BY <1>1, <2>2, <2>3, ToCloseStep
<1>9. CASE CommitLost(u)
  <2>1. PICK tx \in {"committed", "aborted"} :
          r.pc = "committing" /\ Becomes(u, ToClose([r EXCEPT !.tx = tx,
                              !.verdict = "unknown", !.conn = "broken"]))
    BY <1>1, <1>9 DEF CommitLost
  <2> DEFINE s == [r EXCEPT !.tx = tx, !.verdict = "unknown", !.conn = "broken"]
  <2>2. Becomes(u, ToClose(s))
    BY <2>1
  <2>3. s \in Uses /\ Closable(s) /\ r.conn # "none"
    BY <1>1, <2>1 DEF Closable, Sound, Before, Without, Uses, Awaits
  <2> HIDE DEF s
  <2> QED
    BY <1>1, <2>2, <2>3, ToCloseStep
<1>10. CASE CommitFails(u)
  <2>1. r.pc = "committing"
            /\ Becomes(u, [r EXCEPT !.pc = "commit_rollback", !.tx = "aborted",
                             !.verdict = "failed"])
    BY <1>1, <1>10 DEF CommitFails
  <2> DEFINE s == [r EXCEPT !.pc = "commit_rollback", !.tx = "aborted", !.verdict = "failed"]
  <2>2. Becomes(u, s)
    BY <2>1
  <2>3. s \in Uses
    BY <1>1, <2>1 DEF Uses, Awaits
  <2>4. /\ s.mode = r.mode /\ s.pc = "commit_rollback" /\ s.conn = r.conn
        /\ s.tx = "aborted" /\ s.verdict = "failed" /\ s.cancels = r.cancels
        /\ s.cut = r.cut /\ s.rolling = r.rolling /\ s.closing = r.closing
    BY <1>1, <2>1 DEF Uses
  <2> HIDE DEF s
  <2>5. Sound(s) /\ Fine(r, s) /\ Count(s) = Count(r)
    BY <1>1, <2>1, <2>4 DEF Sound, Fine, Leaking, Count, Before, Without, Uses
  <2> QED
    BY <2>2, <2>3, <2>5, BecomesStep
<1>11. CASE CommitRolledBack(u)
  <2>1. r.pc = "commit_rollback" /\ Becomes(u, ToClose(Undone(r)))
    BY <1>1, <1>11 DEF CommitRolledBack
  <2>2. Closable(r)
    BY <1>1, <2>1 DEF Closable, Sound, Before, Without, Uses
  <2> QED
    BY <1>1, <2>1, <2>2, ToCloseStep, UndoneClosable DEF Closable
<1> QED
  BY <1>1, <1>2, <1>3, <1>4, <1>5, <1>6, <1>7, <1>8, <1>9, <1>10, <1>11
  DEF Uses, AllModes, BodyReturns

\* The clean-up goes on.
LEMMA LeaveStep ==
  ASSUME IInv, NEW u \in Users,
         \/ RollbackEnds(u) \/ RollbackAwaited(u) \/ Invalidated(u) \/ ScopeUndone(u)
         \/ CursorClosed(u) \/ Closed(u) \/ ReleaseEnds(u) \/ ReleaseAwaited(u)
  PROVE  Stepped(u)
<1> DEFINE r == use[u]
<1>1. r \in Uses /\ Sound(r)
  BY DEF IInv, TypeOK
<1>2. CASE RollbackEnds(u)
  <2> DEFINE y == Undone(r)
  <2>1. PICK conn \in {"live", "broken", "none"} :
          /\ r.rolling /\ Becomes(u, [y EXCEPT !.rolling = FALSE, !.conn = conn])
          /\ IF r.conn = "live" THEN conn # "none" ELSE conn = r.conn
    <3>1. PICK conn \in (IF r.conn = "live" THEN {"live", "broken"} ELSE {r.conn}) :
            r.rolling /\ Becomes(u, [y EXCEPT !.rolling = FALSE, !.conn = conn])
      BY <1>2 DEF RollbackEnds
    <3>2. conn \in {"live", "broken", "none"}
      BY <1>1, <3>1 DEF Uses
    <3>3. IF r.conn = "live" THEN conn # "none" ELSE conn = r.conn
      BY <3>1
    <3> QED
      BY <3>1, <3>2, <3>3
  <2> DEFINE s == [y EXCEPT !.rolling = FALSE, !.conn = conn]
  <2>2. Becomes(u, s)
    BY <2>1
  <2>3. y \in Uses /\ SameUse(y, r) /\ (y.tx = "committed" <=> r.tx = "committed")
    BY <1>1, UndoneFields
  <2> HIDE DEF y
  <2>4. s \in Uses
    BY <2>1, <2>3 DEF Uses
  <2>5. /\ s.mode = r.mode /\ s.pc = r.pc /\ s.conn = conn /\ s.verdict = r.verdict
        /\ s.cancels = r.cancels /\ s.cut = r.cut /\ s.rolling = FALSE
        /\ s.closing = r.closing /\ (s.tx = "committed" <=> r.tx = "committed")
    BY <2>3 DEF Uses, SameUse
  <2> HIDE DEF s
  <2>6. Sound(s) /\ Fine(r, s) /\ Count(s) = Count(r)
    BY <1>1, <2>1, <2>5 DEF Sound, Fine, Leaking, Count, Before, Without, Uses
  <2> QED
    BY <2>2, <2>4, <2>6, BecomesStep
<1>3. CASE RollbackAwaited(u) /\ r.pc = "rollback" /\ r.cut
  <2>1. r.pc = "rollback" /\ r.cut /\ ~r.rolling /\ Becomes(u, [r EXCEPT !.pc = "invalidating"])
    BY <1>1, <1>3 DEF RollbackAwaited
  <2> DEFINE s == [r EXCEPT !.pc = "invalidating"]
  <2>2. Becomes(u, s)
    BY <2>1
  <2>3. s \in Uses
    BY <1>1, <2>1 DEF Uses, Awaits
  <2>4. /\ s.mode = r.mode /\ s.pc = "invalidating" /\ s.conn = r.conn /\ s.tx = r.tx
        /\ s.verdict = r.verdict /\ s.cancels = r.cancels /\ s.cut = r.cut
        /\ s.rolling = r.rolling /\ s.closing = r.closing
    BY <1>1, <2>1 DEF Uses
  <2> HIDE DEF s
  <2>5. Sound(s) /\ Fine(r, s) /\ Count(s) = Count(r)
    BY <1>1, <2>1, <2>4 DEF Sound, Fine, Leaking, Count, Before, Without, Uses
  <2> QED
    BY <2>2, <2>3, <2>5, BecomesStep
<1>4. CASE RollbackAwaited(u) /\ ~(r.pc = "rollback" /\ r.cut)
  <2>1. r.pc \in {"rollback", "rollback_again"} /\ ~r.rolling
        /\ ~(r.pc = "rollback" /\ r.cut) /\ Becomes(u, ToClose(r))
    BY <1>1, <1>4 DEF RollbackAwaited
  <2>2. Closable(r)
    BY <1>1, <2>1 DEF Closable, Sound, Before, Without, Uses
  <2> QED
    BY <1>1, <2>1, <2>2, ToCloseStep DEF Closable
<1>5. CASE Invalidated(u)
  <2>1. r.pc = "invalidating" /\ Becomes(u, ToClose([r EXCEPT !.conn = "broken"]))
    BY <1>1, <1>5 DEF Invalidated
  <2> DEFINE s == [r EXCEPT !.conn = "broken"]
  <2>2. Becomes(u, ToClose(s))
    BY <2>1
  <2>3. s \in Uses /\ Closable(s) /\ r.conn # "none"
    BY <1>1, <2>1 DEF Closable, Sound, Before, Without, Uses, Awaits
  <2> HIDE DEF s
  <2> QED
    BY <1>1, <2>2, <2>3, ToCloseStep
<1>6. CASE ScopeUndone(u)
  <2>1. r.pc = "undoing" /\ Becomes(u, ToClose(Undone(r)))
    BY <1>1, <1>6 DEF ScopeUndone
  <2>2. Closable(r)
    BY <1>1, <2>1 DEF Closable, Sound, Before, Without, Uses
  <2> QED
    BY <1>1, <2>1, <2>2, ToCloseStep, UndoneClosable DEF Closable
<1>7. CASE CursorClosed(u)
  <2>1. r.pc = "aclosing" /\ Becomes(u, ToClose(r))
    BY <1>1, <1>7 DEF CursorClosed
  <2>2. Closable(r)
    BY <1>1, <2>1 DEF Closable, Sound, Before, Without, Uses
  <2> QED
    BY <1>1, <2>1, <2>2, ToCloseStep DEF Closable
<1>8. CASE Closed(u)
  <2> DEFINE x == [r EXCEPT !.pc = "idle"]
             y == Undone(x)
             s == [y EXCEPT !.conn = "none"]
  <2>1. r.pc = "closing" /\ GivenBack(u, x)
    BY <1>1, <1>8 DEF Closed, Gone
  <2>2. use' = [use EXCEPT ![u] = s] /\ free' = free + 1 /\ leaked' = leaked
    BY <2>1 DEF GivenBack
  <2>3. x \in Uses
    BY <1>1, <2>1 DEF Uses, Awaits
  <2>4. /\ x.mode = r.mode /\ x.pc = "idle" /\ x.conn = r.conn /\ x.tx = r.tx
        /\ x.verdict = r.verdict /\ x.cancels = r.cancels /\ x.cut = r.cut
        /\ x.rolling = r.rolling /\ x.closing = r.closing
    BY <1>1, <2>1 DEF Uses
  <2> HIDE DEF x
  <2>5. y \in Uses
    BY <2>3, UndoneFields
  <2>6. s \in Uses /\ s.conn = "none" /\ SameUse(s, y)
    BY <2>5 DEF Uses, SameUse
  <2>7. SameUse(s, x) /\ (s.tx = "committed" <=> x.tx = "committed")
    BY <2>3, <2>6, UndoneFields DEF SameUse
  <2> HIDE DEF y, s
  <2>8. r.conn # "none" /\ Sound(s) /\ Fine(r, s)
    BY <1>1, <2>1, <2>4, <2>6, <2>7 DEF Sound, Fine, Leaking, Count, Before, Without, SameUse, Uses
  <2> QED
    BY <2>2, <2>6, <2>8, GivenBackStep
<1>9. CASE ReleaseEnds(u)
  <2> DEFINE x == [r EXCEPT !.closing = FALSE]
             y == Undone(x)
             s == [y EXCEPT !.conn = "none"]
  <2>1. r.closing /\ GivenBack(u, x)
    BY <1>1, <1>9 DEF ReleaseEnds
  <2>2. use' = [use EXCEPT ![u] = s] /\ free' = free + 1 /\ leaked' = leaked
    BY <2>1 DEF GivenBack
  <2>3. x \in Uses
    BY <1>1, <2>1 DEF Uses, Awaits
  <2>4. /\ x.mode = r.mode /\ x.pc = r.pc /\ x.conn = r.conn /\ x.tx = r.tx
        /\ x.verdict = r.verdict /\ x.cancels = r.cancels /\ x.cut = r.cut
        /\ x.rolling = r.rolling /\ x.closing = FALSE
    BY <1>1, <2>1 DEF Uses
  <2> HIDE DEF x
  <2>5. y \in Uses
    BY <2>3, UndoneFields
  <2>6. s \in Uses /\ s.conn = "none" /\ SameUse(s, y)
    BY <2>5 DEF Uses, SameUse
  <2>7. SameUse(s, x) /\ (s.tx = "committed" <=> x.tx = "committed")
    BY <2>3, <2>6, UndoneFields DEF SameUse
  <2> HIDE DEF y, s
  <2>8. r.conn # "none" /\ Sound(s) /\ Fine(r, s)
    BY <1>1, <2>1, <2>4, <2>6, <2>7 DEF Sound, Fine, Leaking, Count, Before, Without, SameUse, Uses
  <2> QED
    BY <2>2, <2>6, <2>8, GivenBackStep
<1>10. CASE ReleaseAwaited(u)
  <2>1. r.pc \in {"releasing", "releasing_again"} /\ ~r.closing
            /\ Becomes(u, [r EXCEPT !.pc = "idle"])
    BY <1>1, <1>10 DEF ReleaseAwaited, Gone
  <2> DEFINE s == [r EXCEPT !.pc = "idle"]
  <2>2. Becomes(u, s)
    BY <2>1
  <2>3. s \in Uses
    BY <1>1, <2>1 DEF Uses, Awaits
  <2>4. /\ s.mode = r.mode /\ s.pc = "idle" /\ s.conn = r.conn /\ s.tx = r.tx
        /\ s.verdict = r.verdict /\ s.cancels = r.cancels /\ s.cut = r.cut
        /\ s.rolling = r.rolling /\ s.closing = r.closing
    BY <1>1, <2>1 DEF Uses
  <2> HIDE DEF s
  <2>5. Sound(s) /\ Fine(r, s) /\ Count(s) = Count(r)
    BY <1>1, <2>1, <2>4 DEF Sound, Fine, Leaking, Count, Before, Without, Uses
  <2> QED
    BY <2>2, <2>3, <2>5, BecomesStep
<1> QED
  BY <1>2, <1>3, <1>4, <1>5, <1>6, <1>7, <1>8, <1>9, <1>10

\* The task is cancelled.
LEMMA CancelStep ==
  ASSUME IInv, NEW u \in Users,
         \/ CancelEnter(u) \/ CancelBody(u) \/ CancelCommit(u) \/ CancelCleanup(u)
         \/ CancelBeforeClose(u) \/ CancelClose(u) \/ CancelShielded(u)
  PROVE  Stepped(u)
<1> DEFINE r == use[u]
<1>1. r \in Uses /\ Sound(r)
  BY DEF IInv, TypeOK
<1> DEFINE n == r.cancels + 1
<1>2. r.cancels < MaxCancels => n \in 0 .. MaxCancels /\ n >= 1 /\ (r.cancels >= 1 => n >= 2)
  BY <1>1, UseAssumption DEF Uses
<1>3. r.cancels \in Nat /\ (n > r.cancels)
  BY <1>1 DEF Uses
<1> HIDE DEF n
<1>4. CASE CancelEnter(u) /\ r.pc = "connecting"
  <2>1. r.pc = "connecting" /\ r.cancels < MaxCancels
            /\ Becomes(u, [r EXCEPT !.cancels = n, !.verdict = "cancelled", !.pc = "idle"])
    BY <1>1, <1>4 DEF CancelEnter, Hit, Cancelled, Gone, n
  <2> DEFINE s == [r EXCEPT !.cancels = n, !.verdict = "cancelled", !.pc = "idle"]
  <2>2. Becomes(u, s)
    BY <2>1
  <2>3. s \in Uses
    BY <1>1, <1>2, <1>3, <2>1 DEF Uses, Awaits
  <2>4. /\ s.mode = r.mode /\ s.pc = "idle" /\ s.conn = r.conn /\ s.tx = r.tx
        /\ s.verdict = "cancelled" /\ s.cancels = n /\ s.cut = r.cut
        /\ s.rolling = r.rolling /\ s.closing = r.closing
    BY <1>1, <2>1 DEF Uses
  <2> HIDE DEF s
  <2>5. Sound(s) /\ Fine(r, s) /\ Count(s) = Count(r)
    BY <1>1, <1>2, <1>3, <1>4, <2>1, <2>4 DEF Sound, Fine, Leaking, Count, Before, Without, Uses
  <2> QED
    BY <2>2, <2>3, <2>5, BecomesStep
<1>5. CASE CancelEnter(u) /\ r.pc = "beginning"
  <2>1. r.pc = "beginning" /\ r.cancels < MaxCancels
            /\ Becomes(u, ToClose([r EXCEPT !.cancels = n, !.verdict = "cancelled"]))
    BY <1>1, <1>5 DEF CancelEnter, Hit, Cancelled, Gone, n
  <2> DEFINE s == [r EXCEPT !.cancels = n, !.verdict = "cancelled"]
  <2>2. Becomes(u, ToClose(s))
    BY <2>1
  <2>3. s \in Uses
    BY <1>1, <1>2, <1>3, <2>1 DEF Uses, Awaits
  <2>4. /\ s.mode = r.mode /\ s.conn = r.conn /\ s.tx = r.tx /\ s.cancels = n
        /\ s.verdict = "cancelled" /\ s.cut = r.cut /\ s.rolling = r.rolling
        /\ s.closing = r.closing
    BY <1>1, <2>1 DEF Uses
  <2> HIDE DEF s
  <2>5. s \in Uses /\ Closable(s) /\ r.conn # "none"
    BY <1>1, <1>2, <1>3, <2>1, <2>3, <2>4 DEF Closable, Sound, Before, Without
  <2> QED
    BY <1>1, <2>2, <2>5, ToCloseStep
<1>6. CASE CancelEnter(u) /\ r.pc = "settings"
  <2>1. r.pc = "settings" /\ r.cancels < MaxCancels
            /\ Becomes(u, [r EXCEPT !.cancels = n, !.verdict = "cancelled",
                             !.pc = "enter_rollback"])
    BY <1>1, <1>6 DEF CancelEnter, Hit, Cancelled, Gone, n
  <2> DEFINE s == [r EXCEPT !.cancels = n, !.verdict = "cancelled", !.pc = "enter_rollback"]
  <2>2. Becomes(u, s)
    BY <2>1
  <2>3. s \in Uses
    BY <1>1, <1>2, <1>3, <2>1 DEF Uses, Awaits
  <2>4. /\ s.mode = r.mode /\ s.pc = "enter_rollback" /\ s.conn = r.conn /\ s.tx = r.tx
        /\ s.verdict = "cancelled" /\ s.cancels = n /\ s.cut = r.cut
        /\ s.rolling = r.rolling /\ s.closing = r.closing
    BY <1>1, <2>1 DEF Uses
  <2> HIDE DEF s
  <2>5. Sound(s) /\ Fine(r, s) /\ Count(s) = Count(r)
    BY <1>1, <1>2, <1>3, <1>6, <2>1, <2>4 DEF Sound, Fine, Leaking, Count, Before, Without, Uses
  <2> QED
    BY <2>2, <2>3, <2>5, BecomesStep
<1>7. CASE CancelBody(u) /\ r.mode = "transaction"
  <2>1. PICK conn \in {"live", "broken"} :
          r.pc = "body" /\ r.cancels < MaxCancels /\ Becomes(u, [r EXCEPT !.cancels = n,
                  !.verdict = "cancelled", !.cut = TRUE, !.conn = conn, !.pc = "rollback", !.rolling = TRUE])
    BY <1>1, <1>7 DEF CancelBody, Unwinding, Uses, AllModes, Hit, Cancelled, n
  <2> DEFINE s == [r EXCEPT !.cancels = n, !.verdict = "cancelled", !.cut = TRUE,
                     !.conn = conn, !.pc = "rollback", !.rolling = TRUE]
  <2>2. Becomes(u, s)
    BY <2>1
  <2>3. s \in Uses
    BY <1>1, <1>2, <1>3, <2>1 DEF Uses, Awaits
  <2>4. /\ s.mode = r.mode /\ s.pc = "rollback" /\ s.conn = conn /\ s.tx = r.tx
        /\ s.verdict = "cancelled" /\ s.cancels = n /\ s.cut = TRUE /\ s.rolling = TRUE
        /\ s.closing = r.closing
    BY <1>1, <2>1 DEF Uses
  <2> HIDE DEF s
  <2>5. Sound(s) /\ Fine(r, s) /\ Count(s) = Count(r)
    BY <1>1, <1>2, <1>3, <1>7, <2>1, <2>4 DEF Sound, Fine, Leaking, Count, Before, Without, Uses
  <2> QED
    BY <2>2, <2>3, <2>5, BecomesStep
<1>8. CASE CancelBody(u) /\ r.mode = "stream"
  <2>1. PICK conn \in {"live", "broken"} :
          r.pc = "body" /\ r.cancels < MaxCancels /\ Becomes(u, [r EXCEPT !.cancels = n,
                  !.verdict = "cancelled", !.cut = TRUE, !.conn = conn, !.pc = "aclosing"])
    BY <1>1, <1>8 DEF CancelBody, Unwinding, Uses, AllModes, Hit, Cancelled, n
  <2> DEFINE s == [r EXCEPT !.cancels = n, !.verdict = "cancelled", !.cut = TRUE,
                     !.conn = conn, !.pc = "aclosing"]
  <2>2. Becomes(u, s)
    BY <2>1
  <2>3. s \in Uses
    BY <1>1, <1>2, <1>3, <2>1 DEF Uses, Awaits
  <2>4. /\ s.mode = r.mode /\ s.pc = "aclosing" /\ s.conn = conn /\ s.tx = r.tx
        /\ s.verdict = "cancelled" /\ s.cancels = n /\ s.cut = TRUE
        /\ s.rolling = r.rolling /\ s.closing = r.closing
    BY <1>1, <2>1 DEF Uses
  <2> HIDE DEF s
  <2>5. Sound(s) /\ Fine(r, s) /\ Count(s) = Count(r)
    BY <1>1, <1>2, <1>3, <1>8, <2>1, <2>4 DEF Sound, Fine, Leaking, Count, Before, Without, Uses
  <2> QED
    BY <2>2, <2>3, <2>5, BecomesStep
<1>9. CASE CancelBody(u) /\ r.mode \notin {"transaction", "stream"}
  <2>1. PICK conn \in {"live", "broken"} :
          r.pc = "body" /\ r.cancels < MaxCancels /\ Becomes(u, [r EXCEPT !.cancels = n,
                  !.verdict = "cancelled", !.cut = TRUE, !.conn = conn, !.pc = "undoing"])
    BY <1>1, <1>9 DEF CancelBody, Unwinding, Uses, AllModes, Hit, Cancelled, n
  <2> DEFINE s == [r EXCEPT !.cancels = n, !.verdict = "cancelled", !.cut = TRUE,
                     !.conn = conn, !.pc = "undoing"]
  <2>2. Becomes(u, s)
    BY <2>1
  <2>3. s \in Uses
    BY <1>1, <1>2, <1>3, <2>1 DEF Uses, Awaits
  <2>4. /\ s.mode = r.mode /\ s.pc = "undoing" /\ s.conn = conn /\ s.tx = r.tx
        /\ s.verdict = "cancelled" /\ s.cancels = n /\ s.cut = TRUE
        /\ s.rolling = r.rolling /\ s.closing = r.closing
    BY <1>1, <2>1 DEF Uses
  <2> HIDE DEF s
  <2>5. Sound(s) /\ Fine(r, s) /\ Count(s) = Count(r)
    BY <1>1, <1>2, <1>3, <1>9, <2>1, <2>4 DEF Sound, Fine, Leaking, Count, Before, Without, Uses
  <2> QED
    BY <2>2, <2>3, <2>5, BecomesStep
<1>10. CASE CancelCommit(u)
  <2>1. PICK tx \in {"committed", "active"} :
          r.pc = "committing" /\ r.cancels < MaxCancels
            /\ Becomes(u, [r EXCEPT !.cancels = n, !.verdict = "cancelled", !.pc = "commit_rollback",
                                !.tx = tx, !.verdict = "failed"])
    BY <1>1, <1>10 DEF CancelCommit, Hit, Cancelled, Gone, n
  <2> DEFINE s == [r EXCEPT !.cancels = n, !.verdict = "cancelled", !.pc = "commit_rollback",
                                !.tx = tx, !.verdict = "failed"]
  <2>2. Becomes(u, s)
    BY <2>1
  <2>3. s \in Uses
    BY <1>1, <1>2, <1>3, <2>1 DEF Uses, Awaits
  <2>4. /\ s.mode = r.mode /\ s.pc = "commit_rollback" /\ s.conn = r.conn /\ s.tx = tx
        /\ s.verdict = "failed" /\ s.cancels = n /\ s.cut = r.cut
        /\ s.rolling = r.rolling /\ s.closing = r.closing
    BY <1>1, <2>1 DEF Uses
  <2> HIDE DEF s
  <2>5. Sound(s) /\ Fine(r, s) /\ Count(s) = Count(r)
    BY <1>1, <1>2, <1>3, <2>1, <2>4 DEF Sound, Fine, Leaking, Count, Before, Without, Uses
  <2> QED
    BY <2>2, <2>3, <2>5, BecomesStep
<1>11. CASE CancelCleanup(u)
  <2>1. PICK conn \in {r.conn, "broken"} :
          r.pc \in {"commit_rollback", "undoing", "invalidating"} /\ r.cancels < MaxCancels
            /\ Becomes(u, ToClose([r EXCEPT !.cancels = n, !.verdict = "cancelled", !.conn = conn]))
    BY <1>1, <1>11 DEF CancelCleanup, Hit, Cancelled, Gone, n
  <2> DEFINE s == [r EXCEPT !.cancels = n, !.verdict = "cancelled", !.conn = conn]
  <2>2. Becomes(u, ToClose(s))
    BY <2>1
  <2>3. s \in Uses
    BY <1>1, <1>2, <1>3, <2>1 DEF Uses, Awaits
  <2>4. /\ s.mode = r.mode /\ s.conn = conn /\ s.tx = r.tx /\ s.cancels = n
        /\ s.verdict = "cancelled" /\ s.cut = r.cut /\ s.rolling = r.rolling
        /\ s.closing = r.closing
    BY <1>1, <2>1 DEF Uses
  <2> HIDE DEF s
  <2>5. s \in Uses /\ Closable(s) /\ r.conn # "none"
    BY <1>1, <1>2, <1>3, <2>1, <2>3, <2>4 DEF Closable, Sound, Before, Without
  <2> QED
    BY <1>1, <2>2, <2>5, ToCloseStep
<1>12. CASE CancelBeforeClose(u)
  <2>1. r.pc \in {"enter_rollback", "aclosing"} /\ r.cancels < MaxCancels
            /\ Becomes(u, [r EXCEPT !.cancels = n, !.verdict = "cancelled", !.pc = "idle"])
    BY <1>1, <1>12 DEF CancelBeforeClose, Hit, Cancelled, Gone, n
  <2> DEFINE s == [r EXCEPT !.cancels = n, !.verdict = "cancelled", !.pc = "idle"]
  <2>2. Becomes(u, s)
    BY <2>1
  <2>3. s \in Uses
    BY <1>1, <1>2, <1>3, <2>1 DEF Uses, Awaits
  <2>4. /\ s.mode = r.mode /\ s.pc = "idle" /\ s.conn = r.conn /\ s.tx = r.tx
        /\ s.verdict = "cancelled" /\ s.cancels = n /\ s.cut = r.cut
        /\ s.rolling = r.rolling /\ s.closing = r.closing
    BY <1>1, <2>1 DEF Uses
  <2> HIDE DEF s
  <2>5. Sound(s) /\ Fine(r, s) /\ Count(s) = Count(r)
    BY <1>1, <1>2, <1>3, <2>1, <2>4 DEF Sound, Fine, Leaking, Count, Before, Without, Uses
  <2> QED
    BY <2>2, <2>3, <2>5, BecomesStep
<1>13. CASE CancelClose(u)
  <2> DEFINE x == [r EXCEPT !.cancels = n, !.verdict = "cancelled", !.pc = "idle"]
             y == Undone(x)
             s == [y EXCEPT !.conn = "none"]
  <2>1. r.pc = "closing" /\ r.cancels < MaxCancels /\ GivenBack(u, x)
    BY <1>1, <1>13 DEF CancelClose, Hit, Cancelled, Gone, n
  <2>2. use' = [use EXCEPT ![u] = s] /\ free' = free + 1 /\ leaked' = leaked
    BY <2>1 DEF GivenBack
  <2>3. x \in Uses
    BY <1>1, <1>2, <1>3, <2>1 DEF Uses, Awaits
  <2>4. /\ x.mode = r.mode /\ x.pc = "idle" /\ x.conn = r.conn /\ x.tx = r.tx
        /\ x.verdict = "cancelled" /\ x.cancels = n /\ x.cut = r.cut
        /\ x.rolling = r.rolling /\ x.closing = r.closing
    BY <1>1, <2>1 DEF Uses
  <2> HIDE DEF x
  <2>5. y \in Uses
    BY <2>3, UndoneFields
  <2>6. s \in Uses /\ s.conn = "none" /\ SameUse(s, y)
    BY <2>5 DEF Uses, SameUse
  <2>7. SameUse(s, x) /\ (s.tx = "committed" <=> x.tx = "committed")
    BY <2>3, <2>6, UndoneFields DEF SameUse
  <2> HIDE DEF y, s
  <2>8. r.conn # "none" /\ Sound(s) /\ Fine(r, s)
    BY <1>1, <1>2, <1>3, <2>1, <2>4, <2>6, <2>7
    DEF Sound, Fine, Leaking, Count, Before, Without, SameUse, Uses
  <2> QED
    BY <2>2, <2>6, <2>8, GivenBackStep
<1>14. CASE CancelShielded(u) /\ r.pc = "rollback"
  <2>1. r.pc = "rollback" /\ r.cancels < MaxCancels
            /\ Becomes(u, [r EXCEPT !.cancels = n, !.verdict = "cancelled",
                             !.pc = "rollback_again"])
    BY <1>1, <1>14 DEF CancelShielded, Hit, Cancelled, Gone, n
  <2> DEFINE s == [r EXCEPT !.cancels = n, !.verdict = "cancelled", !.pc = "rollback_again"]
  <2>2. Becomes(u, s)
    BY <2>1
  <2>3. s \in Uses
    BY <1>1, <1>2, <1>3, <2>1 DEF Uses, Awaits
  <2>4. /\ s.mode = r.mode /\ s.pc = "rollback_again" /\ s.conn = r.conn /\ s.tx = r.tx
        /\ s.verdict = "cancelled" /\ s.cancels = n /\ s.cut = r.cut
        /\ s.rolling = r.rolling /\ s.closing = r.closing
    BY <1>1, <2>1 DEF Uses
  <2> HIDE DEF s
  <2>5. Sound(s) /\ Fine(r, s) /\ Count(s) = Count(r)
    BY <1>1, <1>2, <1>3, <1>14, <2>1, <2>4 DEF Sound, Fine, Leaking, Count, Before, Without, Uses
  <2> QED
    BY <2>2, <2>3, <2>5, BecomesStep
<1>15. CASE CancelShielded(u) /\ r.pc = "releasing"
  <2>1. r.pc = "releasing" /\ r.cancels < MaxCancels
            /\ Becomes(u, [r EXCEPT !.cancels = n, !.verdict = "cancelled",
                             !.pc = "releasing_again"])
    BY <1>1, <1>15 DEF CancelShielded, Hit, Cancelled, Gone, n
  <2> DEFINE s == [r EXCEPT !.cancels = n, !.verdict = "cancelled", !.pc = "releasing_again"]
  <2>2. Becomes(u, s)
    BY <2>1
  <2>3. s \in Uses
    BY <1>1, <1>2, <1>3, <2>1 DEF Uses, Awaits
  <2>4. /\ s.mode = r.mode /\ s.pc = "releasing_again" /\ s.conn = r.conn /\ s.tx = r.tx
        /\ s.verdict = "cancelled" /\ s.cancels = n /\ s.cut = r.cut
        /\ s.rolling = r.rolling /\ s.closing = r.closing
    BY <1>1, <2>1 DEF Uses
  <2> HIDE DEF s
  <2>5. Sound(s) /\ Fine(r, s) /\ Count(s) = Count(r)
    BY <1>1, <1>2, <1>3, <1>15, <2>1, <2>4 DEF Sound, Fine, Leaking, Count, Before, Without, Uses
  <2> QED
    BY <2>2, <2>3, <2>5, BecomesStep
<1>16. CASE CancelShielded(u) /\ r.pc = "rollback_again"
  <2>1. r.pc = "rollback_again" /\ r.cancels < MaxCancels
            /\ Becomes(u, ToClose([r EXCEPT !.cancels = n, !.verdict = "cancelled"]))
    BY <1>1, <1>16 DEF CancelShielded, Hit, Cancelled, Gone, n
  <2> DEFINE s == [r EXCEPT !.cancels = n, !.verdict = "cancelled"]
  <2>2. Becomes(u, ToClose(s))
    BY <2>1
  <2>3. s \in Uses
    BY <1>1, <1>2, <1>3, <2>1 DEF Uses, Awaits
  <2>4. /\ s.mode = r.mode /\ s.conn = r.conn /\ s.tx = r.tx /\ s.cancels = n
        /\ s.verdict = "cancelled" /\ s.cut = r.cut /\ s.rolling = r.rolling
        /\ s.closing = r.closing
    BY <1>1, <2>1 DEF Uses
  <2> HIDE DEF s
  <2>5. s \in Uses /\ Closable(s) /\ r.conn # "none"
    BY <1>1, <1>2, <1>3, <2>1, <2>3, <2>4 DEF Closable, Sound, Before, Without
  <2> QED
    BY <1>1, <2>2, <2>5, ToCloseStep
<1>17. CASE CancelShielded(u) /\ r.pc = "releasing_again"
  <2>1. r.pc = "releasing_again" /\ r.cancels < MaxCancels
            /\ Becomes(u, [r EXCEPT !.cancels = n, !.verdict = "cancelled", !.pc = "idle"])
    BY <1>1, <1>17 DEF CancelShielded, Hit, Cancelled, Gone, n
  <2> DEFINE s == [r EXCEPT !.cancels = n, !.verdict = "cancelled", !.pc = "idle"]
  <2>2. Becomes(u, s)
    BY <2>1
  <2>3. s \in Uses
    BY <1>1, <1>2, <1>3, <2>1 DEF Uses, Awaits
  <2>4. /\ s.mode = r.mode /\ s.pc = "idle" /\ s.conn = r.conn /\ s.tx = r.tx
        /\ s.verdict = "cancelled" /\ s.cancels = n /\ s.cut = r.cut
        /\ s.rolling = r.rolling /\ s.closing = r.closing
    BY <1>1, <2>1 DEF Uses
  <2> HIDE DEF s
  <2>5. Sound(s) /\ Fine(r, s) /\ Count(s) = Count(r)
    BY <1>1, <1>2, <1>3, <1>17, <2>1, <2>4 DEF Sound, Fine, Leaking, Count, Before, Without, Uses
  <2> QED
    BY <2>2, <2>3, <2>5, BecomesStep
<1> QED
  BY <1>1, <1>4, <1>5, <1>6, <1>7, <1>8, <1>9, <1>10, <1>11, <1>12, <1>13, <1>14, <1>15, <1>16, <1>17
  DEF Uses, AllModes, CancelEnter, CancelShielded, Hit

\* A task begins a use: what it held and lost is counted as leaked.
LEMMA StartStep ==
  ASSUME IInv, NEW u \in Users, NEW mode \in Modes, Start(u, mode)
  PROVE  Stepped(u)
<1> DEFINE r == use[u]
           s == Fresh(mode)
<1>1. r \in Uses /\ Sound(r) /\ free \in Nat /\ leaked \in Nat
  BY DEF IInv, TypeOK
<1>2. /\ use' = [use EXCEPT ![u] = s] /\ use'[u] = s /\ free' = free
      /\ leaked' = IF r.conn # "none" THEN leaked + 1 ELSE leaked
  BY DEF Start, Held, IInv, TypeOK
<1>3. 0 \in 0 .. MaxCancels /\ mode \in AllModes
  BY UseAssumption
<1>4. s \in Uses
  BY <1>3 DEF Fresh, Uses, Awaits
<1>5. /\ s.mode = mode /\ s.pc = "connecting" /\ s.conn = "none" /\ s.tx = "none"
      /\ s.verdict = "none" /\ s.cancels = 0 /\ s.cut = FALSE /\ s.rolling = FALSE
      /\ s.closing = FALSE
  BY DEF Fresh
<1> HIDE DEF s
<1>6. Sound(s)
  BY <1>5 DEF Sound, Before, Without
<1>7. Fine(r, s)
  <2>1. ~(r.mode = "transaction" /\ r.cut /\ r.cancels = 1 /\ r.conn # "none") \/ r.conn = "broken"
    BY <1>1 DEF Sound, Uses, Start
  <2> QED
    BY <1>5, <2>1 DEF Fine, Leaking
<1>8. /\ free' \in Nat /\ leaked' \in Nat
      /\ free' + leaked' + Count(s) = free + leaked + Count(r)
  <2>1. Count(s) = 0
    BY <1>5 DEF Count
  <2>2. CASE r.conn # "none"
    BY <1>1, <1>2, <2>1, <2>2 DEF Count
  <2>3. CASE r.conn = "none"
    BY <1>1, <1>2, <2>1, <2>3 DEF Count
  <2> QED
    BY <2>2, <2>3
<1> QED
  BY <1>2, <1>4, <1>6, <1>7, <1>8 DEF Stepped

\* The pool hands out a connection.
LEMMA AcquiredStep ==
  ASSUME IInv, NEW u \in Users, Acquired(u)
  PROVE  Stepped(u)
<1> DEFINE r == use[u]
           pc == IF r.mode = "transaction" THEN "beginning" ELSE "body"
           tx == IF r.mode = "transaction" THEN "none" ELSE "active"
           s == [r EXCEPT !.conn = "live", !.pc = pc, !.tx = tx]
<1>1. r \in Uses /\ Sound(r) /\ free \in Nat /\ leaked \in Nat
  BY DEF IInv, TypeOK
<1>2. /\ use' = [use EXCEPT ![u] = s] /\ use'[u] = s /\ free > 0 /\ free' = free - 1
      /\ leaked' = leaked /\ r.pc = "connecting"
  BY DEF Acquired, IInv, TypeOK
<1>3. pc \in {"beginning", "body"} /\ tx \in {"none", "active"}
  OBVIOUS
<1> HIDE DEF pc, tx
<1>4. s \in Uses
  BY <1>1, <1>3 DEF Uses, Awaits
<1>5. /\ s.mode = r.mode /\ s.pc = pc /\ s.conn = "live" /\ s.tx = tx
      /\ s.verdict = r.verdict /\ s.cancels = r.cancels /\ s.cut = r.cut
      /\ s.rolling = r.rolling /\ s.closing = r.closing
  BY <1>1 DEF Uses
<1> HIDE DEF s
<1>6. ~r.cut /\ ~r.closing /\ r.conn = "none"
  BY <1>1, <1>2 DEF Sound, Before
<1>7. Sound(s)
  BY <1>1, <1>2, <1>3, <1>5, <1>6 DEF Sound, Before, Without
<1>8. Fine(r, s)
  BY <1>3, <1>5 DEF Fine, Leaking
<1>9. Count(s) = 1 /\ Count(r) = 0
  BY <1>5, <1>6 DEF Count
<1>10. free' \in Nat /\ leaked' \in Nat
       /\ free' + leaked' + Count(s) = free + leaked + Count(r)
  BY <1>1, <1>2, <1>9
<1> QED
  BY <1>2, <1>4, <1>7, <1>8, <1>10 DEF Stepped

(***************************************************************************)
(* Every step                                                              *)
(***************************************************************************)

\* Whatever happens in a state of the invariant is a step of one task.
LEMMA NextStep ==
  ASSUME IInv, Next
  PROVE  \E u \in Users : Stepped(u)
<1>1. PICK u \in Users :
        (\E mode \in Modes : Start(u, mode)) \/ Proceeds(u) \/ RollbackEnds(u)
          \/ ReleaseEnds(u) \/ Cancel(u)
  BY DEF Next
<1>2. CASE \E mode \in Modes : Start(u, mode)
  BY <1>2, StartStep
<1>3. CASE Proceeds(u)
  BY <1>3, AcquiredStep, EnterStep, BodyStep, LeaveStep DEF Proceeds
<1>4. CASE RollbackEnds(u) \/ ReleaseEnds(u)
  BY <1>4, LeaveStep
<1>5. CASE Cancel(u)
  BY <1>5, CancelStep DEF Cancel
<1> QED
  BY <1>1, <1>2, <1>3, <1>4, <1>5

\* The users that hold a connection.
Holders == {u \in Users : Held(u)}

\* A set has as many members as it has without x, and x if that is one of them.
LEMMA WithAndWithout ==
  ASSUME NEW H, IsFiniteSet(H), NEW x, NEW n \in {0, 1}, n = 1 <=> x \in H
  PROVE  Cardinality(H) = Cardinality(H \ {x}) + n /\ Cardinality(H \ {x}) \in Nat
<1>1. Cardinality(H) \in Nat
  BY FS_CardinalityType
<1>2. CASE x \in H
  <2>1. IsFiniteSet(H \ {x}) /\ Cardinality(H \ {x}) = Cardinality(H) - 1
    BY <1>2, FS_RemoveElement
  <2>2. Cardinality(H \ {x}) \in Nat
    BY <2>1, FS_CardinalityType
  <2> QED
    BY <1>1, <1>2, <2>1, <2>2
<1>3. CASE x \notin H
  <2>1. H \ {x} = H
    BY <1>3
  <2> QED
    BY <1>1, <1>3, <2>1
<1> QED
  BY <1>2, <1>3

\* A step of one task moves its connection only.
LEMMA HoldersStep ==
  ASSUME IInv, NEW u \in Users, Stepped(u)
  PROVE  Cardinality(Holders') + Count(use[u]) = Cardinality(Holders) + Count(use'[u])
<1>1. /\ use \in [Users -> Uses] /\ use' = [use EXCEPT ![u] = use'[u]]
  BY DEF IInv, TypeOK, Stepped
<1>2. \A v \in Users \ {u} : use'[v] = use[v]
  BY <1>1
<1>3. Holders' \ {u} = Holders \ {u}
  BY <1>2 DEF Holders, Held
<1>4. IsFiniteSet(Users) /\ Holders \subseteq Users /\ Holders' \subseteq Users
  BY UseAssumption DEF Holders
<1>5. IsFiniteSet(Holders) /\ IsFiniteSet(Holders')
  BY <1>4, FS_Subset
<1>6. /\ Cardinality(Holders) = Cardinality(Holders \ {u}) + Count(use[u])
      /\ Cardinality(Holders \ {u}) \in Nat
  <2>1. Count(use[u]) = 1 <=> u \in Holders
    BY DEF Count, Holders, Held
  <2> QED
    BY <1>5, <2>1, WithAndWithout DEF Count
<1>7. Cardinality(Holders') = Cardinality(Holders \ {u}) + Count(use'[u])
  <2>1. Count(use'[u]) = 1 <=> u \in Holders'
    BY DEF Count, Holders, Held
  <2>2. Cardinality(Holders') = Cardinality(Holders' \ {u}) + Count(use'[u])
    BY <1>5, <2>1, WithAndWithout DEF Count
  <2> QED
    BY <1>3, <2>2
<1>8. Count(use[u]) \in Nat /\ Count(use'[u]) \in Nat
  BY DEF Count
<1> DEFINE before == Cardinality(Holders)
           after == Cardinality(Holders')
           rest == Cardinality(Holders \ {u})
<1>9. before = rest + Count(use[u]) /\ after = rest + Count(use'[u]) /\ rest \in Nat
  BY <1>6, <1>7
<1> HIDE DEF before, after, rest
<1>10. after + Count(use[u]) = before + Count(use'[u])
  BY <1>8, <1>9
<1> QED
  BY <1>10 DEF before, after

\* Each step keeps the invariant: the tasks it leaves alone stay as they are, and
\* free, leaked and held connections add up to the pool.
LEMMA StepKeeps ==
  ASSUME IInv, NEW u \in Users, Stepped(u)
  PROVE  IInv'
<1>1. use \in [Users -> Uses] /\ use' = [use EXCEPT ![u] = use'[u]] /\ use'[u] \in Uses
  BY DEF IInv, TypeOK, Stepped
<1>2. use' \in [Users -> Uses] /\ \A v \in Users \ {u} : use'[v] = use[v]
  BY <1>1
<1>3. \A v \in Users : Sound(use'[v])
  BY <1>2 DEF IInv, Stepped
<1>4. PoolSize \in Nat /\ free \in Nat /\ leaked \in Nat
        /\ free + leaked + Cardinality(Holders) = PoolSize
  BY UseAssumption DEF IInv, TypeOK, Holders
<1>5. free' \in Nat /\ leaked' \in Nat
        /\ free' + leaked' + Count(use'[u]) = free + leaked + Count(use[u])
  BY DEF Stepped
<1>6. Cardinality(Holders') + Count(use[u]) = Cardinality(Holders) + Count(use'[u])
  BY HoldersStep
<1>7. Count(use[u]) \in Nat /\ Count(use'[u]) \in Nat
  BY DEF Count
<1>8. Cardinality(Holders) \in Nat /\ Cardinality(Holders') \in Nat
  <2>1. IsFiniteSet(Users) /\ Holders \subseteq Users /\ Holders' \subseteq Users
    BY UseAssumption DEF Holders
  <2> QED
    BY <2>1, FS_Subset, FS_CardinalityType
<1>9. free' + leaked' + Cardinality(Holders') = PoolSize
  BY <1>4, <1>5, <1>6, <1>7, <1>8
<1>10. free' \in 0 .. PoolSize /\ leaked' \in 0 .. PoolSize
  BY <1>4, <1>5, <1>8, <1>9
<1>11. TypeOK'
  BY <1>2, <1>9, <1>10 DEF TypeOK, Holders
<1> QED
  BY <1>3, <1>11 DEF IInv

\* Nobody uses a connection at first.
LEMMA InitSound ==
  ASSUME Init
  PROVE  IInv
<1> DEFINE s == [Fresh("read") EXCEPT !.pc = "idle"]
<1>1. use = [u \in Users |-> s] /\ free = PoolSize /\ leaked = 0
  BY DEF Init
<1>2. PoolSize \in Nat /\ 0 \in 0 .. MaxCancels
  BY UseAssumption
<1>3. s \in Uses
  BY <1>2 DEF Fresh, Uses, AllModes, Awaits
<1>4. /\ s.mode = "read" /\ s.pc = "idle" /\ s.conn = "none" /\ s.cancels = 0
      /\ s.cut = FALSE /\ s.rolling = FALSE /\ s.closing = FALSE
  BY DEF Fresh
<1> HIDE DEF s
<1>5. Sound(s)
  BY <1>4 DEF Sound, Before, Without
<1>6. use \in [Users -> Uses] /\ \A u \in Users : use[u] = s
  BY <1>1, <1>3
<1>7. {u \in Users : Held(u)} = {}
  BY <1>4, <1>6 DEF Held
<1>8. free + leaked + Cardinality({u \in Users : Held(u)}) = PoolSize
  BY <1>1, <1>2, <1>7, FS_EmptySet
<1>9. free \in 0 .. PoolSize /\ leaked \in 0 .. PoolSize
  BY <1>1, <1>2
<1> QED
  BY <1>5, <1>6, <1>8, <1>9 DEF IInv, TypeOK

\* The invariant holds in every state, and every step is fine for every task.
THEOREM Invariance == Spec => []IInv
<1>1. Init => IInv
  BY InitSound
<1>2. IInv /\ [Next]_vars => IInv'
  <2> SUFFICES ASSUME IInv, [Next]_vars
               PROVE  IInv'
    OBVIOUS
  <2>1. CASE Next
    BY <2>1, NextStep, StepKeeps
  <2>2. CASE UNCHANGED vars
    BY <2>2 DEF IInv, TypeOK, Held, vars
  <2> QED
    BY <2>1, <2>2
<1> QED
  BY <1>1, <1>2, PTL DEF Spec

\* What a step does is fine for all tasks.
LEMMA AllFine ==
  ASSUME IInv, Next
  PROVE  \A u \in Users : Fine(use[u], use'[u])
<1>1. PICK v \in Users : Stepped(v)
  BY NextStep
<1>2. use \in [Users -> Uses] /\ use' = [use EXCEPT ![v] = use'[v]] /\ Fine(use[v], use'[v])
  BY <1>1 DEF Stepped, IInv, TypeOK
<1> SUFFICES ASSUME NEW u \in Users
             PROVE  Fine(use[u], use'[u])
  OBVIOUS
<1>3. CASE u = v
  BY <1>2, <1>3
<1>4. CASE u # v
  <2>1. use'[u] = use[u]
    BY <1>2, <1>4
  <2> QED
    BY <2>1 DEF Fine
<1> QED
  BY <1>3, <1>4

(***************************************************************************)
(* What holds of every behaviour                                           *)
(***************************************************************************)

\* The variables have their types, and every connection of the pool is free, in use
\* or leaked: none is given back twice.
THEOREM TypeCorrect == Spec => []TypeOK
<1>1. IInv => TypeOK
  BY DEF IInv
<1> QED
  BY <1>1, Invariance, PTL

\* Callers of writes and transactions are told what became of their COMMIT.
THEOREM ToldTruth == Spec => []ToldRight
<1>1. IInv => ToldRight
  BY DEF IInv, Sound, ToldRight, Ended
<1> QED
  BY <1>1, Invariance, PTL

\* A shielded clean-up is awaited, unless the task is cancelled twice.
THEOREM ShieldHolds == Spec => []CleanupUndisturbed
<1>1. IInv => CleanupUndisturbed
  BY DEF IInv, Sound, CleanupUndisturbed
<1> QED
  BY <1>1, Invariance, PTL

\* The connection of a transaction cut in its body is invalidated.
THEOREM CutDropped == Spec => CutConnectionDropped
<1> DEFINE A == \A u \in Users :
       use[u].mode = "transaction" /\ use[u].cut /\ use[u].cancels = 1
         /\ Held(u) /\ use'[u].conn = "none" => use[u].conn = "broken"
<1>1. IInv /\ [Next]_vars => [A]_vars
  BY AllFine DEF Fine, Held
<1> QED
  BY <1>1, Invariance, PTL DEF Spec, CutConnectionDropped

\* A connection leaks only by a cancellation that comes before its close().
THEOREM LeaksKnown == Spec => LeaksOnlyBeforeClose
<1> DEFINE A == \A u \in Users : Leaks(u)' /\ ~Leaks(u) =>
       use[u].pc \in {"enter_rollback", "aclosing"} /\ use'[u].cancels > use[u].cancels
<1>1. IInv /\ [Next]_vars => [A]_vars
  BY AllFine DEF Fine, Leaking, Leaks, Held
<1> QED
  BY <1>1, Invariance, PTL DEF Spec, LeaksOnlyBeforeClose

\* Cancelled or not, a use gives its connection back as it should, but for the known leaks.
THEOREM Returns == Spec => ReturnsSound
  BY CutDropped, LeaksKnown, PTL DEF ReturnsSound
=============================================================================
