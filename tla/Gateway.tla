------------------------------ MODULE Gateway -------------------------------
(***************************************************************************)
(* The Discord Gateway (server/integrations/discord-gateway.ts): every     *)
(* instance's supervisor, the connection of the one that holds the lease,  *)
(* its session, and what Discord and the network do to them.               *)
(*                                                                         *)
(* A lease lapses when its holder is dead or late (module OpsRunner has    *)
(* the timing).  Configurations are numbered; 0 is "not wanted".           *)
(***************************************************************************)
EXTENDS Naturals, FiniteSets

CONSTANTS
  Instance,   \* instances of the server
  MaxConfig,  \* bound: configurations
  MaxFaults   \* bound: everything that goes wrong

Config == 0 .. MaxConfig

VARIABLES
  config,  \* the stored configuration
  holder,  \* holder of the lease; {} when it has lapsed
  sup,     \* the supervisor of each instance: where it is, and what it read
  fatal,   \* fatalFingerprint
  gw,      \* `current` of each instance
  stray,   \* an `open` or a socket of a gateway that was stopped
  known,   \* whether Discord still knows the session of a gateway
  faults

vars == <<config, holder, sup, fatal, gw, stray, known, faults>>

\* Waiting to reconnect, asking for the URL, connecting, greeted, in session.
Stage == {"off", "waiting", "fetching", "connecting", "greeted", "ready"}
Socket == {"connecting", "greeted", "ready"}

Off == [stage |-> "off", config |-> 0, resume |-> FALSE, session |-> FALSE, url |-> FALSE, silent |-> FALSE]

TypeOK ==
  /\ config \in Config
  /\ holder \in SUBSET Instance
  /\ sup \in [Instance -> [pc : {"idle", "lease", "start"}, config : Config]]
  /\ fatal \in [Instance -> Config]
  /\ gw \in [Instance -> [stage : Stage, config : Config, resume : BOOLEAN, session : BOOLEAN, url : BOOLEAN,
                          silent : BOOLEAN]]
  /\ stray \in [Instance -> {"none", "fetching", "open"}]
  /\ known \in [Instance -> BOOLEAN]
  /\ faults \in 0 .. MaxFaults

Init ==
  /\ config = 1 /\ holder = {}
  /\ sup = [i \in Instance |-> [pc |-> "idle", config |-> 0]]
  /\ fatal = [i \in Instance |-> 0]
  /\ gw = [i \in Instance |-> Off]
  /\ stray = [i \in Instance |-> "none"]
  /\ known = [i \in Instance |-> FALSE]
  /\ faults = 0

At(i, stage) == gw[i].stage = stage
Fault == faults < MaxFaults /\ faults' = faults + 1

-----------------------------------------------------------------------------
(* The supervisor. *)

\* stop() closes the socket; an `open` that waits for the URL goes on.
Stop(i) ==
  /\ gw' = [gw EXCEPT ![i] = Off]
  /\ stray' = [stray EXCEPT ![i] = IF At(i, "fetching") THEN "fetching" ELSE @]

\* supervise reads the configuration; a timer runs it, and a saved configuration,
\* which forgets a fatal error.
Supervise(i, saved) ==
  /\ sup[i].pc = "idle"
  /\ fatal' = IF saved THEN [fatal EXCEPT ![i] = 0] ELSE fatal
  /\ LET wanted == config # 0 /\ config # fatal'[i]
     IN /\ sup' = [sup EXCEPT ![i] = [pc |-> IF wanted THEN "lease" ELSE "idle", config |-> config]]
        /\ IF ~At(i, "off") /\ (~wanted \/ gw[i].config # config) THEN Stop(i) ELSE UNCHANGED <<gw, stray>>
  /\ UNCHANGED <<config, holder, known, faults>>

\* The pass goes on until a gateway it starts has its socket; none runs meanwhile.
StartUnlessRunning(i) ==
  IF At(i, "off")
  THEN /\ gw' = [gw EXCEPT ![i] = [Off EXCEPT !.stage = "fetching", !.config = sup[i].config]]
       /\ sup' = [sup EXCEPT ![i].pc = "start"]
  ELSE gw' = gw /\ sup' = [sup EXCEPT ![i].pc = "idle"]

\* Mutant: whoever has lost the lease leaves its gateway running.
LeaseLostKeeps(i) ==
  /\ sup[i].pc = "lease"
  /\ IF holder \subseteq {i} THEN holder' = {i} /\ StartUnlessRunning(i)
     ELSE UNCHANGED <<holder, gw>> /\ sup' = [sup EXCEPT ![i].pc = "idle"]
  /\ UNCHANGED <<config, fatal, stray, known, faults>>

\* acquireLease: the loser stops, the holder starts if it has no gateway yet.
Lease(i) ==
  /\ sup[i].pc = "lease"
  /\ IF holder \subseteq {i} THEN holder' = {i} /\ StartUnlessRunning(i) /\ UNCHANGED stray
     ELSE holder' = holder /\ Stop(i) /\ sup' = [sup EXCEPT ![i].pc = "idle"]
  /\ UNCHANGED <<config, fatal, known, faults>>

-----------------------------------------------------------------------------
(* One gateway. *)

Change(i, to) ==
  /\ gw' = [gw EXCEPT ![i] = to]
  /\ UNCHANGED <<config, holder, sup, fatal, stray>>

\* reconnectSoon, backoff: no socket, and an `open` later.
Waiting(i, resume) ==
  [gw[i] EXCEPT !.stage = "waiting", !.resume = resume, !.silent = FALSE]

\* open: a session has come with a URL of its own to resume at.
Open(i) ==
  /\ At(i, "waiting")
  /\ Change(i, [gw[i] EXCEPT !.stage = IF gw[i].resume /\ gw[i].url THEN "connecting" ELSE "fetching"])
  /\ UNCHANGED <<known, faults>>

Passed(i) == sup' = [sup EXCEPT ![i].pc = IF @ = "start" THEN "idle" ELSE @]

Fetched(i) ==
  /\ At(i, "fetching")
  /\ gw' = [gw EXCEPT ![i].stage = "connecting"]
  /\ Passed(i)
  /\ UNCHANGED <<config, holder, fatal, stray, known, faults>>

\* GET /gateway/bot fails: the first time the supervisor gives up until its next
\* pass, later ones back off.
FetchFails(i) ==
  /\ At(i, "fetching") /\ Fault
  /\ gw' = [gw EXCEPT ![i] = IF sup[i].pc = "start" THEN Off ELSE Waiting(i, gw[i].resume)]
  /\ Passed(i)
  /\ UNCHANGED <<config, holder, fatal, stray, known>>

\* Hello: resume, if that was the plan and there is a session, else identify.
Greet(i) ==
  /\ At(i, "connecting")
  /\ Change(i, [gw[i] EXCEPT !.stage = "greeted", !.resume = @ /\ gw[i].session])
  /\ UNCHANGED <<known, faults>>

\* READY to an identify, RESUMED to a resume of a session Discord knows.
Ready(i) ==
  /\ At(i, "greeted") /\ ~gw[i].silent
  /\ gw[i].resume => known[i]
  /\ Change(i, [gw[i] EXCEPT !.stage = "ready", !.session = TRUE, !.url = TRUE])
  /\ known' = [known EXCEPT ![i] = TRUE]
  /\ UNCHANGED faults

\* Op 9 to a resume of one it does not know.
InvalidSession(i) ==
  /\ At(i, "greeted") /\ ~gw[i].silent
  /\ gw[i].resume /\ ~known[i]
  /\ Change(i, [Waiting(i, FALSE) EXCEPT !.session = FALSE])
  /\ UNCHANGED <<known, faults>>

\* Op 7, or an op 9 that may be resumed.
ReconnectAsked(i) ==
  /\ gw[i].stage \in {"greeted", "ready"} /\ ~gw[i].silent /\ Fault
  /\ Change(i, Waiting(i, TRUE))
  /\ UNCHANGED known

\* The connection goes silent, and a heartbeat that is due finds no answer to
\* the one before.
GoSilent(i) ==
  /\ gw[i].stage \in {"greeted", "ready"} /\ ~gw[i].silent /\ Fault
  /\ Change(i, [gw[i] EXCEPT !.silent = TRUE])
  /\ UNCHANGED known

MissedBeat(i) ==
  /\ gw[i].silent
  /\ Change(i, Waiting(i, TRUE))
  /\ UNCHANGED <<known, faults>>

\* onClose, by its code: some reset the session, others leave it.
Close(i) ==
  /\ gw[i].stage \in Socket /\ Fault
  /\ \E session \in {FALSE, gw[i].session} :
       Change(i, [Waiting(i, session) EXCEPT !.session = session])
  /\ UNCHANGED known

\* A code that says the configuration is wrong.
CloseFatal(i) ==
  /\ gw[i].stage \in Socket /\ Fault
  /\ fatal' = [fatal EXCEPT ![i] = gw[i].config]
  /\ gw' = [gw EXCEPT ![i] = Off]
  /\ UNCHANGED <<config, holder, sup, stray, known>>

-----------------------------------------------------------------------------
(* The world. *)

Forget(i) ==
  /\ known[i] /\ Fault
  /\ known' = [known EXCEPT ![i] = FALSE]
  /\ UNCHANGED <<config, holder, sup, fatal, gw, stray>>

\* The `open` of a stopped gateway gets its socket, which nothing here closes;
\* Discord may, and a request for the URL may fail.
StrayMoves(i) ==
  /\ stray[i] # "none"
  /\ stray' \in {[stray EXCEPT ![i] = to] : to \in {"open", "none"} \ {stray[i]}}
  /\ UNCHANGED <<config, holder, sup, fatal, gw, known, faults>>

\* A process dies with its sockets, and starts again; its lease lapses.
Crash(i) ==
  /\ Fault
  /\ holder' = holder \ {i}
  /\ sup' = [sup EXCEPT ![i] = [pc |-> "idle", config |-> 0]]
  /\ fatal' = [fatal EXCEPT ![i] = 0]
  /\ gw' = [gw EXCEPT ![i] = Off]
  /\ stray' = [stray EXCEPT ![i] = "none"]
  /\ known' = [known EXCEPT ![i] = FALSE]
  /\ UNCHANGED config

\* The holder's passes are late.
Lapse ==
  /\ holder # {} /\ Fault
  /\ holder' = {}
  /\ UNCHANGED <<config, sup, fatal, gw, stray, known>>

SaveConfig(to) ==
  /\ to # config /\ Fault
  /\ config' = to
  /\ UNCHANGED <<holder, sup, fatal, gw, stray, known>>

GatewayStep(i) ==
  Open(i) \/ Fetched(i) \/ Greet(i) \/ Ready(i) \/ InvalidSession(i) \/ MissedBeat(i)

Next ==
  \/ \E i \in Instance :
       \/ \E saved \in BOOLEAN : Supervise(i, saved)
       \/ Lease(i) \/ GatewayStep(i) \/ FetchFails(i) \/ ReconnectAsked(i) \/ GoSilent(i)
       \/ Close(i) \/ CloseFatal(i) \/ Forget(i) \/ StrayMoves(i) \/ Crash(i)
  \/ Lapse
  \/ \E to \in Config : SaveConfig(to)

Spec == Init /\ [][Next]_vars

\* The timer goes off, a pass ends, and Discord answers.
Fairness ==
  \A i \in Instance :
    WF_vars(Supervise(i, FALSE)) /\ WF_vars(Lease(i)) /\ WF_vars(GatewayStep(i))

FairSpec == Spec /\ Fairness

-----------------------------------------------------------------------------
(* What the gateway promises. *)

\* "Only the holder of the lease connects; another instance takes over": whatever
\* becomes of the lease, one instance at most is left with a gateway of its
\* supervisor's (`current`; a socket that was opened after its gateway was
\* stopped is none); and however connections and sessions end, a wanted gateway
\* comes back.
OneGateway ==
  /\ <>[](Cardinality({i \in Instance : ~At(i, "off")}) <= 1)
  /\ <>[](config # 0 /\ \A i \in Instance : fatal[i] # config) => <>[](\E i \in Instance : At(i, "ready"))

\* "One connection per deployment": of all the connections there are, only one
\* is left.
OneConnection ==
  <>[](Cardinality({i \in Instance : gw[i].stage \in Socket}) + Cardinality({i \in Instance : stray[i] = "open"}) <= 1)
=============================================================================
