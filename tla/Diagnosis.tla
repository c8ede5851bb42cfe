------------------------------ MODULE Diagnosis ------------------------------
(* "Why is this page empty?", asked twice: by the diagnostics page          *)
(* (api/diagnostics.py, the diagnostics view) and by `manage.py diagnose`.  *)
(* What they look at is a record: [backend, connects, configured, token,    *)
(* login, wheel, runner, local, pings, readable, newest, jids, empty,       *)
(* indexes]; `configured`: no required environment variable is unset.       *)
(* `newest` is the jid of the newest return (0: no returns) and `jids` what *)
(* the job cache holds; `empty` is the set of Alcali's own tables without   *)
(* rows.  `readable`: the returner tables exist and may be read.            *)
EXTENDS Naturals

Caches == {"cache.minions", "cache.keys", "cache.schedules", "cache.beacons"}

Check(key, status) == [key |-> key, status |-> status]

\* _return_collection_check: `pings` is what test.ping came back with.
ReturnCollection(pings) ==
  Check("salt.collection", CASE pings = {}      -> "unknown"
                             [] TRUE \in pings  -> "ok"
                             [] OTHER           -> "fail")

\* salt_checks: nothing is asked of a master that refuses the login; of one that
\* accepts it, every client is tried whether or not those before it answered.
SaltChecks(env) ==
  IF env.token # "stored" \/ env.login # "ok" THEN {Check("salt.login", "fail")}
  ELSE LET answered(got) == IF got = "fails" THEN "fail" ELSE "ok"
       IN {Check("salt.login", "ok"), Check("salt.wheel", answered(env.wheel)),
           Check("salt.runner", answered(env.runner)), Check("salt.local", answered(env.local))}
          \cup (IF env.local = "fails" THEN {} ELSE {ReturnCollection(env.pings)})

\* Mutant: it is asked whether the job cache holds any job.
BugAnyJob(env) ==
  IF env.newest = 0 THEN "unknown" ELSE IF env.jids = {} THEN "fail" ELSE "ok"

\* What the two tables say of each other.
JobCache(env) ==
  IF env.newest = 0 THEN "unknown"
  ELSE IF env.newest \notin env.jids THEN "fail"
  ELSE IF \A jid \in env.jids : jid < env.newest THEN "warn" ELSE "ok"

-----------------------------------------------------------------------------
(* A check that reads the database, in a transaction that may have been     *)
(* broken: [check, broken].  The request is one transaction                 *)
(* (ATOMIC_REQUESTS), and PostgreSQL refuses every statement after one that *)
(* failed; each check takes that for a failure of its own.                  *)

Reads(env, broken, key, fails, status) ==
  [check  |-> Check(key, IF broken \/ fails THEN "unknown" ELSE status),
   broken |-> (broken \/ fails) /\ env.backend = "postgresql"]

JobCacheCheck(env, broken) == Reads(env, broken, "cache.job", ~env.readable, JobCache(env))

OneCache(env, broken, cache) ==
  Reads(env, broken, cache, FALSE, IF cache \in env.empty THEN "warn" ELSE "ok")

IndexCheck(env, broken) ==
  Reads(env, broken, "db.indexes", env.indexes = "unreadable",
        IF env.indexes = "missing" THEN "warn" ELSE "ok")

\* collect: one group after another, in one transaction; Alcali's own tables can
\* be read unless it is broken, so that the caches leave it as it was.
Collect(env) ==
  LET jobs == JobCacheCheck(env, FALSE)
  IN SaltChecks(env) \cup {jobs.check}
       \cup {OneCache(env, jobs.broken, cache).check : cache \in Caches}
       \cup {IndexCheck(env, jobs.broken).check}

\* The diagnostics view.
Worst(checks) ==
  LET statuses == {check.status : check \in checks}
  IN IF "fail" \in statuses THEN "fail" ELSE IF "warn" \in statuses THEN "warn" ELSE "ok"

-----------------------------------------------------------------------------
(* The command: what it prints, "crashed" when it raises, and whether it    *)
(* ends with status 0.                                                      *)

\* check_salt_api: it stops at the first client that fails, does not try the
\* runner, and reads into the wheel client's answer.
CheckSaltApi(env) ==
  IF env.token # "stored" THEN {"salt.token"}
  ELSE IF env.login # "ok" THEN {"salt.login"}
  ELSE IF env.wheel # "ok" THEN {"salt.wheel"}
  ELSE IF env.local = "fails" THEN {"salt.local"} ELSE {}

\* report_job_cache: two questions here.
ReportJobCache(env) ==
  LET seen == env.readable /\ env.newest # 0
  IN [behind     |-> seen /\ env.jids # {} /\ \A jid \in env.jids : jid < env.newest,
      notWritten |-> seen /\ env.newest \notin env.jids]

\* handle: without a connection the name missing_indexes was never bound, and
\* reading it raises.  Only the connection, the environment and the Salt API
\* decide the exit status.
Diagnose(env, withUser) ==
  LET salt == IF withUser THEN CheckSaltApi(env) ELSE {}
  IN IF ~env.connects
     THEN [ends |-> "crashed", salt |-> {},
           job |-> ReportJobCache([env EXCEPT !.readable = FALSE])]
     ELSE [ends |-> IF salt = {} /\ env.configured THEN "ok" ELSE "failed", salt |-> salt,
           job |-> ReportJobCache(env)]
=============================================================================
