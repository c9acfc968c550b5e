---- MODULE Readiness ----
(*****************************************************************************)
(* The probes of api/health.py (FR-09) beside the migrations: releases of    *)
(* the service are started, the operator runs alembic, and the orchestrator  *)
(* asks /readyz and /healthz at any moment.                                  *)
(*                                                                           *)
(* Revisions are the versions of module Migrations; 0 stands for no revision *)
(* (None, and the empty string of _resolve_alembic_head).                    *)
(*****************************************************************************)
EXTENDS Migrations, Problems

CONSTANT Releases  \* what migrations/versions holds, per release: for each file
                   \* whether its name hides it, whether it can be read, and the
                   \* two revisions it assigns; {} where an installed package
                   \* finds no such directory

NoRevision == 0

VARIABLES
  files,            \* of the release that is running
  ALEMBIC_HEAD, ALEMBIC_CURRENT,
  answer            \* of the last probe: the response, and the conditions that
                    \* its detail names

service == <<files, ALEMBIC_HEAD, ALEMBIC_CURRENT>>
probed == <<vars, service, answer>>

\* The scripts _resolve_alembic_head takes into account; _extract_string_assignment
\* gives None where the assignment is missing.
Scripts(directory) ==
  {f \in directory : ~f.hidden /\ f.readable /\ f.revision # NoRevision}

\* The revision that no other names as its down_revision; the first of several.
ResolvedHead(directory) ==
  LET children == {f.down : f \in Scripts(directory)}
      heads == {f.revision : f \in Scripts(directory)} \ children
  IN IF heads = {} THEN NoRevision ELSE CHOOSE h \in heads : \A g \in heads : h <= g

\* The module is imported: current is taken to be the head.
Imported(directory) ==
  /\ files' = directory
  /\ ALEMBIC_HEAD' = ResolvedHead(directory)
  /\ ALEMBIC_CURRENT' = ALEMBIC_HEAD'

ReadinessInit ==
  /\ Init
  /\ files \in Releases
  /\ ALEMBIC_HEAD = ResolvedHead(files) /\ ALEMBIC_CURRENT = ALEMBIC_HEAD
  /\ answer = [response |-> Success(200), failed |-> {}]

\* A release is deployed, or its process restarted.
Start ==
  /\ \E directory \in Releases : Imported(directory)
  /\ UNCHANGED <<vars, answer>>

check_migration_at_head == ALEMBIC_CURRENT = ALEMBIC_HEAD

\* db_ok is what check_db_reachable finds: an engine that cannot be built and a
\* connection that is refused are both FALSE.
readyz(db_ok, inbound) ==
  LET conditions == (IF db_ok THEN {} ELSE {"database unreachable"})
        \cup (IF check_migration_at_head THEN {} ELSE {"migration not at head"})
  IN /\ answer' = [response |-> IF conditions = {} THEN Success(200)
                                ELSE Envelope(503, {}, "/readyz", inbound),
                   failed |-> conditions]
     /\ UNCHANGED <<vars, service>>

ProbeReady == \E db_ok \in BOOLEAN, inbound \in {"", "id"} : readyz(db_ok, inbound)

healthz ==
  /\ answer' = [response |-> Success(200), failed |-> {}]
  /\ UNCHANGED <<vars, service>>

ReadinessNext ==
  \/ Next /\ UNCHANGED <<service, answer>>
  \/ Start \/ ProbeReady \/ healthz

ReadinessSpec == ReadinessInit /\ [][ReadinessNext]_probed

-----------------------------------------------------------------------------

\* readyz, "a single failure returns HTTP 503 ... Deploying newer code without
\* running the migration therefore fails closed: /readyz reports 503 until the
\* operator runs alembic upgrade head" (AC-9.3, AC-9.6): a 200 is given only while
\* the schema is at the newest revision of the release.
ReadyMeansAtHead ==
  [][ProbeReady /\ answer'.response.status = 200
       => \A f \in Scripts(files) : f.revision <= version]_probed
====
