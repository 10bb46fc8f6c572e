------------------------ MODULE ErrorClassification ------------------------
(***************************************************************************)
(* From an exception to the class of DatabaseError a caller sees           *)
(* (dbkit/_core/errors: sqlstate.py, classifier.py), and from there to the *)
(* answer of an HTTP API (dbkit/integrations/fastapi.py).                  *)
(*                                                                         *)
(* A SQLSTATE is the pair of its two-character class and the rest.  Codes  *)
(* stands for all of them: every code of the exact table, and codes of     *)
(* which only the class is known, or nothing.                              *)
(***************************************************************************)
EXTENDS DbErrors, Optional, Naturals, TLC

\* SQLSTATE_MAP; error classes that differ from their base in name only are left to it.
CodesOf ==
  [Integrity     |-> {<<"23", "505">>, <<"23", "503">>, <<"23", "502">>, <<"23", "514">>,
                      <<"23", "000">>, <<"40", "002">>},
   Serialization |-> {<<"40", "001">>},
   Deadlock      |-> {<<"40", "P01">>},
   Transaction   |-> {<<"40", "000">>, <<"25", "P02">>},
   CommitUnknown |-> {<<"40", "003">>},
   LockTimeout   |-> {<<"55", "P03">>},
   QueryTimeout  |-> {<<"57", "014">>},
   Connection    |-> {<<"57", "P01">>, <<"57", "P02">>, <<"08", "000">>, <<"08", "003">>,
                      <<"08", "006">>, <<"08", "001">>, <<"08", "004">>},
   Unavailable   |-> {<<"57", "P03">>, <<"53", "300">>, <<"53", "400">>},
   Permission    |-> {<<"25", "006">>, <<"42", "501">>},
   Programming   |-> {<<"42", "601">>, <<"42", "P01">>, <<"42", "703">>, <<"42", "883">>,
                      <<"22", "P02">>}]

\* SQLSTATE_CLASS_MAP.
PrefixesOf ==
  [Connection |-> {"08"}, Integrity |-> {"23"}, Programming |-> {"42", "22"},
   Transaction |-> {"40"}, Unavailable |-> {"53"}]

MappedCodes == UNION {CodesOf[c] : c \in DOMAIN CodesOf}

\* Division by zero, unresolved outcome, out of memory, ..., and codes of no table:
\* feature not supported, program limit, database dropped, RAISE in a function.
OtherCodes ==
  {<<"22", "012">>, <<"08", "007">>, <<"53", "200">>, <<"42", "P02">>, <<"0A", "000">>,
   <<"54", "001">>, <<"57", "P04">>, <<"P0", "001">>}

Codes == MappedCodes \cup OtherCodes

\* The DBAPI class of a code, as psycopg has it; asyncpg's adapter uses Error ("other")
\* for most.
DriverTypes(code) ==
  CASE code[1] = "23" -> {"integrity"}
    [] code[1] = "42" -> {"programming"}
    [] code[1] \in {"08", "40", "53", "54", "55", "57"} -> {"operational", "other"}
    [] code[1] \in {"0A", "22", "25", "P0"} -> {"other"}

\* What may be raised: a DatabaseError; asyncio.timeout or an operating system timeout;
\* another OSError; SQLAlchemy's own errors; a DBAPI error wrapped by SQLAlchemy, which
\* knows whether the connection is lost, or straight from the driver.
Plain(form) ==
  [form |-> form, code |-> None, type |-> "other", lost |-> FALSE, class |-> "Database"]

Exceptions ==
  LET Dbapi(form, code, type, lost) ==
        [form |-> form, code |-> code, type |-> type, lost |-> lost, class |-> "Database"]
  IN  {[Plain("dbkit") EXCEPT !.class = c] : c \in ErrorClasses}
      \cup {Plain(form) : form \in {"deadline", "os", "pool_timeout", "disconnection", "python"}}
      \cup (UNION {{Dbapi(form, code, type, lost) :
                      form \in {"dbapi", "driver"}, type \in DriverTypes(code), lost \in BOOLEAN} :
                   code \in Codes})
      \cup {Dbapi(form, None, type, lost) : form \in {"dbapi", "driver"},
              type \in {"integrity", "programming", "operational", "other"}, lost \in BOOLEAN}

-----------------------------------------------------------------------------
(* Classification *)

Lookup(table, x) ==
  IF \E c \in DOMAIN table : x \in table[c] THEN CHOOSE c \in DOMAIN table : x \in table[c]
                                            ELSE None

ErrorClassForSqlstate(code) ==
  IF code = None THEN None
  ELSE FirstKnown(<<Lookup(CodesOf, code), Lookup(PrefixesOf, code[1])>>)

\* _from_sqlalchemy_type.
FromSqlalchemyType(e) ==
  CASE e.form = "disconnection" -> "Connection"
    [] e.form = "pool_timeout"  -> "PoolTimeout"
    [] e.form = "dbapi" ->
         [integrity |-> "Integrity", programming |-> "Programming",
          operational |-> "Connection", other |-> "Database"][e.type]
    [] e.form \notin {"disconnection", "pool_timeout", "dbapi"} -> None

\* classify, in its order of precedence.
Classify(e) ==
  FirstKnown(<<IF e.form = "dbkit" THEN e.class ELSE None,
               IF e.form = "deadline" THEN "QueryTimeout" ELSE None,
               ErrorClassForSqlstate(e.code), FromSqlalchemyType(e),
               IF e.form = "os" THEN "Connection" ELSE None,
               "Database">>)

\* Mutant: only what SQLAlchemy knows to be a lost connection.
IsConnectionError_SqlalchemyOnly(e) == e.form = "dbapi" /\ e.lost

\* is_connection_error: an operating system timeout is an OSError too.
IsConnectionError(e) ==
  IF e.form = "dbapi" THEN e.lost ELSE e.form \in {"os", "deadline"}

\* What the caller is told of an exception raised by a statement, or by COMMIT.
Reported(e, phase) ==
  IF phase = "commit" /\ IsConnectionError(e) THEN "CommitUnknown" ELSE Classify(e)

-----------------------------------------------------------------------------
(* The HTTP answer *)

OverloadCategories == {"pool", "concurrency", "resilience", "availability", "connection"}

TimeoutCategories == {"timeout", "cancelled", "lock"}

\* _database_error_handler.
Status(class) ==
  IF Category[class] \in TimeoutCategories THEN 504
  ELSE IF Category[class] \in OverloadCategories THEN 503
  ELSE 500

\* _derive_retry_after: whole seconds, rounded up and at least one; `tenths` is the
\* open_seconds of the breaker in tenths, None when no facade is given.
RetryAfter(tenths) ==
  IF tenths = None THEN 2 ELSE IF tenths > 0 THEN (tenths + 9) \div 10 ELSE 1
=============================================================================
