---------------------------- MODULE MCDecisions ----------------------------
EXTENDS Decisions

RetryChoice == [attempts : {2}, reads : BOOLEAN, writes : BOOLEAN]

\* Deadlines and timeouts around the waits.
TimingChoice ==
  [call : {None, 0, 2, 5}, query : {None, 0, 1, 4}, default : {0, 3}, deadline : {None, 1, 3, 6}]

LimitChoice == [rows : {1, 2, 3}, params : {3, 7}, bytes : {None, 4}]

RawPools ==
  {None} \cup [size : {-1, 0, 1, 2}, max_overflow : {0, 1}]
         \cup [size : {1}, disable_pooling : {TRUE}]

RawBudgets ==
  {None} \cup [maximum_per_process : {3}]
         \cup [maximum_per_process : {2, 4}, enforce_at_startup : BOOLEAN]
         \cup [maximum_application_share : {2}, enforce_at_startup : {TRUE}]

RawTargets ==
  [url : {"url with sslmode"}, pool : RawPools] \cup {[url |-> "url"], [url |-> ""]}

\* A database with one replica or none, and one without a primary.
RawDatabases ==
  {<<>>} \cup [primary : RawTargets, connection_budget : RawBudgets]
         \cup [primary : {[url |-> "url"]}, replicas : {<<r>> : r \in RawTargets \cup {<<>>}},
               connection_budget : RawBudgets]

\* A second database, which relies on the defaults.
Other == [primary |-> [url |-> "url"]]

RawConfigChoice ==
  {<<>>} \cup
  [databases : UNION {{[a |-> db], [a |-> db, b |-> Other]} : db \in RawDatabases},
   environment : {"development", "production"},
   defaults : {[pool |-> pool] : pool \in {None} \cup [size : {-1, 1}, max_overflow : {0}]},
   connection_budget : RawBudgets]
=============================================================================
