---------------------------- MODULE ServerConfig ----------------------------
(***************************************************************************)
(* How the caps of /exec get their values.  The same defaults and checks   *)
(* are written three times: in the launcher of the client package          *)
(* (exec_server.py), in the server's typed configuration                   *)
(* (exec_server_config.py) and in its Settings with the command line over  *)
(* them (settings.py, _exec_server_cli.py).  A client then sizes its       *)
(* batches by what /exec/limits tells of them.                             *)
(*                                                                         *)
(* A configuration is a record of the fields below; where only some are    *)
(* given, on a command line or in the environment, the others are Absent.  *)
(***************************************************************************)
EXTENDS Integers, Optional

Fields == {"port", "workers", "lanes", "items", "tactics", "attempts", "in_flight",
           "queued", "bytes", "unbounded", "width", "calls"}

Greater(a, b) == IF a > b THEN a ELSE b
Lesser(a, b) == IF a < b THEN a ELSE b

\* default_exec_worker_count(): a machine has CPUs and, if that can be read,
\* memory, here in GiB.
WorkerCount(machine) ==
    LET cpus == Greater(machine.cpus - 1, 1)
    IN IF machine.memory = Absent THEN cpus
       ELSE Lesser(cpus, Greater(Greater(machine.memory \div 2 - 16, 0) \div 6, 1))

InFlightFor(workers) == Greater(Lesser(workers, 8), 1)

QueuedFor(inFlight) == Greater(Lesser(inFlight * 4, 32), 4)

Or(value, default) == IF value = Absent THEN default ELSE value

\* What a configuration becomes on a machine: the fields that depend on the
\* pool follow the workers, the queue follows the requests in flight.
Populated(given, machine) ==
    LET workers == Or(given.workers, WorkerCount(machine))
        inFlight == Or(given.in_flight, InFlightFor(workers))
    IN [port |-> Or(given.port, 8000), workers |-> workers,
        lanes |-> Or(given.lanes, workers), width |-> Or(given.width, workers),
        in_flight |-> inFlight, queued |-> Or(given.queued, QueuedFor(inFlight)),
        items |-> Or(given.items, 1024), tactics |-> Or(given.tactics, 64),
        attempts |-> Or(given.attempts, 8192), bytes |-> Or(given.bytes, 16),
        calls |-> Or(given.calls, 8), unbounded |-> Or(given.unbounded, FALSE)]

\* validate_bounded_exec_caps(), alike on both sides
Bounded(c) ==
    /\ c.in_flight = -1 \/ c.in_flight > 0
    /\ c.queued >= -1 /\ c.bytes >= -1
    /\ c.unbounded \/ -1 \notin {c.in_flight, c.queued, c.bytes}

Positive(c, fields) == \A f \in fields : c[f] > 0
Sizes == {"port", "workers", "lanes", "items", "tactics", "attempts", "width"}

\* The launcher's ExecServerConfig(...) does not raise.
ClientAccepts(c) == Positive(c, Sizes \cup {"calls"}) /\ Bounded(c)

\* Seeded bug: the size of the queue is not passed on.
CliArgsNoQueue(c) ==
    [c EXCEPT !.queued = Absent, !.unbounded = IF c.unbounded THEN TRUE ELSE Absent]

\* to_cli_args(): every field is passed, the opt-in only when it is set.
CliArgs(c) == [c EXCEPT !.unbounded = IF c.unbounded THEN TRUE ELSE Absent]

\* The server's ExecServerConfig(...) does not raise.
ServerAccepts(c) == Positive(c, Sizes) /\ c.port <= 65535 /\ Bounded(c)

\* settings_from_cli_args(): the Settings of the environment; --workers resizes
\* what depends on it and was not given, the queue by the requests in flight
\* before the options themselves are set; then every option given is.
SettingsFrom(args, environment, machine) ==
    LET base == Populated(environment, machine)
        inFlight == IF args.in_flight = Absent THEN InFlightFor(args.workers) ELSE base.in_flight
        resized ==
            IF args.workers = Absent THEN base
            ELSE [base EXCEPT !.lanes = args.workers, !.width = args.workers,
                              !.in_flight = inFlight, !.queued = QueuedFor(inFlight)]
    IN [f \in Fields |-> Or(args[f], resized[f])]

\* from_server_limits() of a client: it refuses an unbounded server, and a batch
\* width or a number of calls that is not positive.
Connects(s) == -1 \notin {s.in_flight, s.queued, s.bytes} /\ s.width > 0 /\ s.calls > 0

----------------------------------------------------------------------------
\* A server that the client package launches runs with the caps it was given,
\* whatever its environment says; only an opt-in of the environment remains.
LaunchedRight(client, environment, launched) ==
    ClientAccepts(client) /\ client.port <= 65535 =>
        /\ ServerAccepts(launched)
        /\ \A f \in Fields \ {"unbounded"} : launched[f] = client[f]
        /\ launched.unbounded = (client.unbounded \/ environment.unbounded = TRUE)

\* A command line means the same to both of the server's readers, but for the
\* queue when only the requests in flight are given.  Options beat the
\* environment, which keeps what they leave open.
ReadersAgree(given, environment, settings, parsed) ==
    /\ (\A f \in Fields : environment[f] = Absent) =>
        \A f \in Fields :
            \/ settings[f] = parsed[f]
            \/ f = "queued" /\ given.queued = Absent /\ given.in_flight # Absent
    /\ \A f \in Fields :
        /\ given[f] # Absent => settings[f] = given[f]
        /\ given[f] = Absent /\ given.workers = Absent /\ environment[f] # Absent
             => settings[f] = environment[f]

\* A client takes the limits of every bounded server that allows it any calls
\* at all.
LimitsTaken(settings) ==
    ServerAccepts(settings) /\ ~settings.unbounded /\ settings.calls > 0 => Connects(settings)
=============================================================================
