---------------------------- MODULE ServerConfig ----------------------------
(* Saving integration settings and Server.reconfigure: what the server runs *)
(* after admins saved at once, a step of one failed, or the process died    *)
(* (httpapi/server.go, httpapi/admin_integration_settings.go,               *)
(* store/integration_settings.go, Close of nzb/service.go).                 *)
EXTENDS Naturals, FiniteSets

CONSTANTS
  Admin,     \* requests that save settings
  Boot,      \* NewServer
  Input,     \* what a save may send: records of some of Field
  Base,      \* the environment's configuration, of every Field
  Prowlarr,  \* whether the environment configures Prowlarr
  MaxSaves   \* bound on the saves

Field == {"tmdb", "subtitles", "torrent", "nzb"}

ConstantsOK ==
  /\ Boot \notin Admin /\ Prowlarr \in BOOLEAN /\ MaxSaves \in Nat
  /\ DOMAIN Base = Field /\ {Base["torrent"], Base["nzb"]} \subseteq {"on", "off"}
  /\ \A in \in Input : \A f \in DOMAIN in :
       f \in Field /\ (f \in {"torrent", "nzb"} => in[f] \in {"on", "off", "unset"})

Actor == Admin \cup {Boot}

VARIABLES
  stored,       \* the settings row; "unset" is an empty credential, a nil toggle
  at,           \* actor -> where its save or its reconfigure is
  copy,         \* actor -> the settings it goes by
  missed,       \* whether a change was stored and no reconfigure read it since
  tmdb,         \* key of the TMDb client, "unset" when there is none
  subtitles,    \* the account of the subtitles service
  started,      \* how often services were started
  torrentSvc,   \* the torrent service, by what started was then; 0 is none
  nzbSvc,       \* the NZB service
  changed,      \* torrentChanged or nzbChanged, of the reconfigure under way
  acquisition,  \* the acquisition service: its client and its services
  monitors,     \* acquisition services whose monitor was not cancelled
  sweepers,     \* NZB services whose background sync was not cancelled
  sweeping,     \* NZB services with a sweep in flight
  syncs,        \* <<torrent, NZB>> of the Prowlarr syncs not cancelled
  prowlarrOn,   \* prowlarrCancel is set
  saves, restarted

savedVars == <<stored, copy, missed>>
clientVars == <<tmdb, subtitles>>
sourceVars == <<started, torrentSvc, nzbSvc, changed, sweepers>>
acquisitionVars == <<acquisition, monitors>>
syncVars == <<syncs, prowlarrOn>>
vars == <<savedVars, at, clientVars, sourceVars, acquisitionVars, sweeping, syncVars,
          saves, restarted>>

NoAcquisition == [tmdb |-> "unset", torrent |-> 0, nzb |-> 0]
Applying == {"clients", "sources", "acquisition", "prowlarr"}

Goto(a, where) == at' = [at EXCEPT ![a] = where]

-----------------------------------------------------------------------------
(* UpdateIntegrationSettings, without a transaction around its statements.  *)

\* A field that was not sent keeps what was read.
Merge(settings, in) == [f \in Field |-> IF f \in DOMAIN in THEN in[f] ELSE settings[f]]

ReadForSave(a, in) ==
  /\ at[a] = "idle" /\ at[Boot] = "idle" /\ saves < MaxSaves
  /\ copy' = [copy EXCEPT ![a] = Merge(stored, in)]
  /\ saves' = saves + 1
  /\ Goto(a, "saving")
  /\ UNCHANGED <<stored, missed, clientVars, sourceVars, acquisitionVars, sweeping,
                 syncVars, restarted>>

\* The write, and the read of what to answer: if either fails, there is no
\* reconfigure.
Save(a) ==
  /\ at[a] = "saving"
  /\ \/ stored' = copy[a] /\ UNCHANGED missed /\ Goto(a, "stored")
     \/ stored' = copy[a] /\ missed' = TRUE /\ Goto(a, "idle")
     \/ UNCHANGED <<stored, missed>> /\ Goto(a, "idle")
  /\ UNCHANGED <<copy, clientVars, sourceVars, acquisitionVars, sweeping, syncVars,
                 saves, restarted>>

-----------------------------------------------------------------------------
(* reconfigure, under reconfigureMu.                                       *)

\* Mutant: no mutex.
FreeAlways == TRUE

Free == \A a \in Actor : at[a] \notin Applying

\* What the settings leave open is the environment's.
Effective(settings) == [f \in Field |-> IF settings[f] = "unset" THEN Base[f] ELSE settings[f]]

ReadSettings(a) ==
  /\ at[a] = "stored" /\ Free
  /\ \/ copy' = [copy EXCEPT ![a] = stored] /\ missed' = FALSE /\ Goto(a, "clients")
     \/ UNCHANGED copy /\ missed' = TRUE /\ Goto(a, "idle")
  /\ UNCHANGED <<stored, clientVars, sourceVars, acquisitionVars, sweeping, syncVars,
                 saves, restarted>>

\* A subtitles service that cannot be built is none.
ApplyClients(a) ==
  /\ at[a] = "clients"
  /\ tmdb' = Effective(copy[a])["tmdb"]
  /\ subtitles' \in {Effective(copy[a])["subtitles"], "unset"}
  /\ Goto(a, "sources")
  /\ UNCHANGED <<savedVars, sourceVars, acquisitionVars, sweeping, syncVars, saves, restarted>>

\* A service is kept, started or stopped.
Toggle(service, wanted) ==
  IF wanted = "off" THEN 0 ELSE IF service = 0 THEN started + 1 ELSE service

ApplySources(a) ==
  /\ at[a] = "sources"
  /\ torrentSvc' = Toggle(torrentSvc, Effective(copy[a])["torrent"])
  /\ nzbSvc' = Toggle(nzbSvc, Effective(copy[a])["nzb"])
  /\ changed' = (torrentSvc' # torrentSvc \/ nzbSvc' # nzbSvc)
  /\ started' = IF started + 1 \in {torrentSvc', nzbSvc'} THEN started + 1 ELSE started
  /\ sweepers' = IF nzbSvc' = nzbSvc THEN sweepers
                 ELSE (sweepers \cup {nzbSvc'}) \ {nzbSvc, 0}
  /\ Goto(a, "acquisition")
  /\ UNCHANGED <<savedVars, clientVars, acquisitionVars, sweeping, syncVars, saves, restarted>>

\* Rebuilt when it should begin or end to be, or a source's service is another.
ApplyAcquisition(a) ==
  /\ at[a] = "acquisition"
  /\ LET wanted == tmdb # "unset" /\ (torrentSvc # 0 \/ nzbSvc # 0)
     IN IF changed \/ wanted # (acquisition # NoAcquisition)
        THEN /\ acquisition' = IF wanted
                               THEN [tmdb |-> tmdb, torrent |-> torrentSvc, nzb |-> nzbSvc]
                               ELSE NoAcquisition
             /\ monitors' = (monitors \cup {acquisition'}) \ {acquisition, NoAcquisition}
        ELSE UNCHANGED acquisitionVars
  /\ Goto(a, "prowlarr")
  /\ UNCHANGED <<savedVars, clientVars, sourceVars, sweeping, syncVars, saves, restarted>>

ApplyProwlarr(a) ==
  /\ at[a] = "prowlarr"
  /\ prowlarrOn' = (Prowlarr /\ (torrentSvc # 0 \/ nzbSvc # 0))
  /\ syncs' = IF ~prowlarrOn' THEN {}
              ELSE IF prowlarrOn /\ ~changed THEN syncs ELSE {<<torrentSvc, nzbSvc>>}
  /\ Goto(a, "idle")
  /\ UNCHANGED <<savedVars, clientVars, sourceVars, acquisitionVars, sweeping, saves, restarted>>

-----------------------------------------------------------------------------
(* The services' own goroutines, and the process.                          *)

\* The background sync or TriggerSync, under the service's syncRunning.
BeginSweep ==
  /\ nzbSvc # 0 /\ nzbSvc \notin sweeping
  /\ sweeping' = sweeping \cup {nzbSvc}
  /\ UNCHANGED <<savedVars, at, clientVars, sourceVars, acquisitionVars, syncVars, saves,
                 restarted>>

EndSweep(n) ==
  /\ n \in sweeping
  /\ sweeping' = sweeping \ {n}
  /\ UNCHANGED <<savedVars, at, clientVars, sourceVars, acquisitionVars, syncVars, saves,
                 restarted>>

\* No API key appeared in Prowlarr's configuration within five minutes.
GiveUpSync ==
  /\ syncs # {} /\ syncs' = {}
  /\ UNCHANGED <<savedVars, at, clientVars, sourceVars, acquisitionVars, sweeping,
                 prowlarrOn, saves, restarted>>

AtBoot == [a \in Actor |-> IF a = Boot THEN "stored" ELSE "idle"]

Restart ==
  /\ ~restarted /\ restarted' = TRUE
  /\ at' = AtBoot
  /\ tmdb' = "unset" /\ subtitles' = "unset"
  /\ started' = 0 /\ torrentSvc' = 0 /\ nzbSvc' = 0 /\ changed' = FALSE
  /\ acquisition' = NoAcquisition /\ monitors' = {}
  /\ sweepers' = {} /\ sweeping' = {} /\ syncs' = {} /\ prowlarrOn' = FALSE
  /\ UNCHANGED <<savedVars, saves>>

-----------------------------------------------------------------------------
Unset == [f \in Field |-> "unset"]

Init ==
  /\ at = AtBoot
  /\ tmdb = "unset" /\ subtitles = "unset"
  /\ started = 0 /\ torrentSvc = 0 /\ nzbSvc = 0 /\ changed = FALSE
  /\ acquisition = NoAcquisition /\ monitors = {}
  /\ sweepers = {} /\ sweeping = {} /\ syncs = {} /\ prowlarrOn = FALSE
  /\ stored = Unset /\ copy = [a \in Actor |-> Unset] /\ missed = FALSE
  /\ saves = 0 /\ restarted = FALSE

Reconfigure(a) ==
  \/ ReadSettings(a) \/ ApplyClients(a) \/ ApplySources(a)
  \/ ApplyAcquisition(a) \/ ApplyProwlarr(a)

Next ==
  \/ \E a \in Admin : Save(a) \/ \E in \in Input : ReadForSave(a, in)
  \/ \E a \in Actor : Reconfigure(a)
  \/ BeginSweep \/ \E n \in sweeping : EndSweep(n)
  \/ GiveUpSync \/ Restart

Spec == Init /\ [][Next]_vars

-----------------------------------------------------------------------------
(* Properties.                                                             *)

\* What is stored, what is loaded and what runs.
TypeOK ==
  /\ at \in [Actor -> Applying \cup {"idle", "saving", "stored"}]
  /\ DOMAIN stored = Field /\ missed \in BOOLEAN
  /\ started \in 0..(MaxSaves + 1) /\ torrentSvc \in 0..started /\ nzbSvc \in 0..started
  /\ changed \in BOOLEAN /\ prowlarrOn \in BOOLEAN /\ restarted \in BOOLEAN
  /\ sweepers \cup sweeping \subseteq 1..started
  /\ saves \in 0..MaxSaves

Settled == ~missed /\ \A a \in Actor : at[a] \notin Applying \cup {"stored"}

\* When what was stored has been applied, by however many saves at once, the
\* clients and services are the ones the settings ask for, acquisition works
\* with the sources of now, and no loop of an earlier service was left running.
RunsAsConfigured ==
  Settled =>
    LET wanted == Effective(stored) IN
    /\ tmdb = wanted["tmdb"] /\ subtitles \in {wanted["subtitles"], "unset"}
    /\ torrentSvc # 0 <=> wanted["torrent"] = "on"
    /\ nzbSvc # 0 <=> wanted["nzb"] = "on"
    /\ acquisition # NoAcquisition <=> tmdb # "unset" /\ (torrentSvc # 0 \/ nzbSvc # 0)
    /\ acquisition # NoAcquisition =>
         acquisition.torrent = torrentSvc /\ acquisition.nzb = nzbSvc
    /\ monitors = {acquisition} \ {NoAcquisition}
    /\ sweepers = {nzbSvc} \ {0}
    /\ syncs \subseteq {<<torrentSvc, nzbSvc>>}

\* Violated by the code: acquisition uses the TMDb key that was saved last.
AcquisitionUsesKey ==
  Settled /\ acquisition # NoAcquisition => acquisition.tmdb = tmdb
=============================================================================
