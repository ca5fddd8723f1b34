-------------------------------- MODULE Tray --------------------------------
(***************************************************************************)
(* The glance surfaces and the fix-its clicked in them: the tray's client  *)
(* (tray/client.DaemonClient), its menu and refreshes (tray/main.Tray,     *)
(* tray/sni.DBusMenu), its registration with the panel (sni.Registrar),    *)
(* the hub's buttons (web/dclient.Daemon), and the daemon's two handlers   *)
(* behind them (server._list_failures, server._restart_unit).              *)
(*                                                                         *)
(*   refresh: idle -> asked -> listed -> idle                              *)
(*   fix:     idle -> asked -> matched -> done -> idle                     *)
(***************************************************************************)
EXTENDS Naturals, Sequences, FiniteSets, Functions

CONSTANTS
  Units,       \* numbered in the order in which listings name them
  Refreshes,   \* Tray._refresh tasks that may run at once
  Fixes,       \* restart_unit requests that may run at once
  MaxChanges,  \* bound on the failures and recoveries of units
  MaxTrouble   \* bound on timeouts, failing calls, lost daemons and lost panels

ASSUME BoundsAssumption == {MaxChanges, MaxTrouble} \subseteq Nat
ASSUME UnitsAssumption == Units \subseteq Nat /\ IsFiniteSet(Units)

VARIABLES
  failing,           \* the units that are failed in systemd
  connected,         \* DaemonClient.connected
  refresh,           \* per refresh: its task and the listing on its way
  reach, units,      \* Tray._connected and Tray._units
  drawn,             \* the rows of the menu as the panel last fetched them
  fix,               \* per fix: its task in the daemon
  boot, watcher, registered, retry,   \* the registrar and the panel
  refused,           \* the last registration failed, and the panel was there
  changes, trouble   \* what the bounds count

tray   == <<reach, units, drawn>>
panel  == <<boot, watcher, registered, retry, refused>>
counts == <<changes, trouble>>
trayVars == <<failing, connected, refresh, tray, fix, panel, counts>>

NoFix == [at |-> "idle", via |-> "tray", unit |-> 0, needed |-> FALSE]
Idle  == [at |-> "idle", got |-> <<>>]

TrayTypeOK ==
  /\ failing \in SUBSET Units
  /\ connected \in BOOLEAN
  /\ \A r \in Refreshes : /\ refresh[r].at \in {"idle", "asked", "listed"}
                          /\ refresh[r].got \in Seq(Units)
                          /\ refresh[r].at # "idle" => connected
  /\ reach \in BOOLEAN /\ units \in Seq(Units) /\ drawn \in Seq(Units)
  /\ \A f \in Fixes : /\ fix[f].at \in {"idle", "asked", "matched", "done"}
                      /\ fix[f].unit \in Units \cup {0}
  /\ boot \in {"named", "watching", "tried"}
  /\ watcher \in BOOLEAN /\ registered \in BOOLEAN /\ retry \in BOOLEAN
  /\ refused \in BOOLEAN
  /\ changes \in 0..MaxChanges /\ trouble \in 0..MaxTrouble

TrayInit ==
  /\ failing \in SUBSET Units
  /\ connected = FALSE
  /\ refresh = [r \in Refreshes |-> Idle]
  /\ reach = FALSE /\ units = <<>> /\ drawn = <<>>
  /\ fix = [f \in Fixes |-> NoFix]
  /\ boot = "named" /\ watcher \in BOOLEAN /\ registered = FALSE /\ retry = FALSE
  /\ refused = FALSE
  /\ changes = 0 /\ trouble = 0

Change  == changes < MaxChanges /\ changes' = changes + 1 /\ UNCHANGED trouble
Trouble == trouble < MaxTrouble /\ trouble' = trouble + 1 /\ UNCHANGED changes

\* The units of a set, in the order of their numbers.
InOrder(set) ==
  CHOOSE s \in [1..Cardinality(set) -> set] : \A i, j \in DOMAIN s : i < j => s[i] < s[j]

Listing == InOrder(failing)

Flips(u) ==
  /\ Change
  /\ failing' = IF u \in failing THEN failing \ {u} ELSE failing \cup {u}
  /\ fix' = [f \in Fixes |-> [fix[f] EXCEPT !.needed =
               @ \/ (fix[f].at # "idle" /\ fix[f].unit = u /\ u \notin failing)]]
  /\ UNCHANGED <<connected, refresh, tray, panel>>

-----------------------------------------------------------------------------
(* The connection.                                                         *)

\* The client and the poll are started once the first registration has returned.
Connect ==
  /\ boot = "tried" /\ ~connected /\ connected' = TRUE
  /\ UNCHANGED <<failing, refresh, tray, fix, panel, counts>>

\* Mutant: the requests of the old connection stay pending.
LoseDaemonOnly ==
  /\ connected /\ Trouble /\ connected' = FALSE
  /\ reach' = FALSE /\ units' = <<>>
  /\ UNCHANGED <<failing, refresh, fix, drawn, panel>>

\* Pending requests fail, and the tray shows that the daemon is out of reach.
LoseDaemon ==
  /\ connected /\ Trouble /\ connected' = FALSE
  /\ refresh' = [r \in Refreshes |-> Idle]
  /\ fix' = [f \in Fixes |-> NoFix]
  /\ reach' = FALSE /\ units' = <<>>
  /\ UNCHANGED <<failing, drawn, panel>>

-----------------------------------------------------------------------------
(* Refreshing: by the poll, on an event, after a fix.                      *)

Ask(r) ==
  /\ connected /\ refresh[r].at = "idle"
  /\ refresh' = [refresh EXCEPT ![r].at = "asked"]
  /\ UNCHANGED <<failing, connected, tray, fix, panel, counts>>

\* A systemctl that fails lists nothing.
List(r) ==
  /\ refresh[r].at = "asked"
  /\ \E got \in {Listing, <<>>} :
       /\ refresh' = [refresh EXCEPT ![r] = [at |-> "listed", got |-> got]]
       /\ (got = Listing /\ UNCHANGED counts) \/ (got # Listing /\ Trouble)
  /\ UNCHANGED <<failing, connected, tray, fix, panel>>

\* Mutant: an empty listing is taken for no answer.
NewsOnly(got) == IF got = <<>> THEN units ELSE got
News(got) == got

\* The answers of two refreshes arrive in either order; the last to arrive is shown.
Apply(r) ==
  /\ refresh[r].at = "listed"
  /\ refresh' = [refresh EXCEPT ![r] = Idle]
  /\ reach' = TRUE /\ units' = News(refresh[r].got)
  /\ UNCHANGED <<failing, connected, drawn, fix, panel, counts>>

\* REQUEST_TIMEOUT_S: shown as a daemon out of reach; a late answer is dropped.
AskTimesOut(r) ==
  /\ refresh[r].at # "idle" /\ Trouble
  /\ refresh' = [refresh EXCEPT ![r] = Idle]
  /\ reach' = FALSE /\ units' = <<>>
  /\ UNCHANGED <<failing, connected, drawn, fix, panel>>

Rows == IF reach THEN units ELSE <<>>

\* The panel fetches the menu of a registered icon some time after it changed.
Draw ==
  /\ registered /\ drawn' = Rows
  /\ UNCHANGED <<failing, connected, refresh, reach, units, fix, panel, counts>>

-----------------------------------------------------------------------------
(* Fix-its.                                                                *)

Send(f, via, u) ==
  fix' = [fix EXCEPT ![f] = [at |-> "asked", via |-> via, unit |-> u,
                             needed |-> u \in failing]]

\* A click brings the number of a row that was drawn, which is looked up in the rows of now.
Finds(i) == i \in DOMAIN drawn \cap DOMAIN Rows

ClickRow(f, i) ==
  /\ fix[f].at = "idle" /\ connected
  /\ Finds(i) /\ Send(f, "tray", Rows[i])
  /\ UNCHANGED <<failing, connected, refresh, tray, panel, counts>>

\* The hub's button brings the unit; the page it is on may be of any age.
ClickPage(f, u) ==
  /\ fix[f].at = "idle" /\ connected
  /\ Send(f, "web", u)
  /\ UNCHANGED <<failing, connected, refresh, tray, panel, counts>>

\* Mutant: the request is taken at its word.
AnyUnit(u) == TRUE
StillFailing(u) == u \in failing

Match(f) ==
  /\ fix[f].at = "asked"
  /\ \/ /\ fix' = [fix EXCEPT ![f] = IF StillFailing(fix[f].unit)
                                     THEN [@ EXCEPT !.at = "matched"] ELSE NoFix]
        /\ UNCHANGED counts
     \/ fix' = [fix EXCEPT ![f] = NoFix] /\ Trouble
  /\ UNCHANGED <<failing, connected, refresh, tray, panel>>

\* The restart holds or it does not.
Restarted(f) == failing' \in {failing, failing \ {fix[f].unit}}

Restart(f) ==
  /\ fix[f].at = "matched" /\ Restarted(f)
  /\ fix' = [fix EXCEPT ![f].at = "done"]
  /\ UNCHANGED <<connected, refresh, tray, panel, counts>>

Record(f) ==
  /\ fix[f].at = "done" /\ fix' = [fix EXCEPT ![f] = NoFix]
  /\ UNCHANGED <<failing, connected, refresh, tray, panel, counts>>

\* The hub's request times out and its socket is closed: the daemon's task is
\* cancelled, the restart it asked the helper for is not, and no row is written. The
\* tray keeps its socket, and its task in the daemon goes on.
FixTimesOut(f) ==
  /\ fix[f].at # "idle" /\ fix[f].via = "web" /\ Trouble
  /\ IF fix[f].at = "matched" THEN Restarted(f) ELSE UNCHANGED failing
  /\ fix' = [fix EXCEPT ![f] = NoFix]
  /\ UNCHANGED <<connected, refresh, tray, panel>>

-----------------------------------------------------------------------------
(* The icon: registered with the panel's watcher, again with each new one. *)

Elsewhere == UNCHANGED <<failing, connected, refresh, reach, units, fix>>

Watch ==
  /\ boot = "named" /\ boot' = "watching"
  /\ Elsewhere /\ UNCHANGED <<drawn, watcher, registered, retry, refused, counts>>

\* Registrar.ensure_registered: a failure is logged, whether there is no panel or one
\* that does not answer well, and is not tried again.
EnsureRegistered ==
  \/ registered' = watcher /\ refused' = FALSE /\ UNCHANGED counts
  \/ watcher /\ Trouble /\ refused' = ~registered /\ UNCHANGED registered

FirstTry ==
  /\ boot = "watching" /\ boot' = "tried" /\ EnsureRegistered
  /\ Elsewhere /\ UNCHANGED <<drawn, watcher, retry>>

\* Mutant: the registrar registers once and for all.
NeverListens == FALSE
Listens == boot # "named"

WatcherAppears ==
  /\ ~watcher /\ watcher' = TRUE /\ retry' = (retry \/ Listens) /\ refused' = FALSE
  /\ Elsewhere /\ UNCHANGED <<drawn, boot, registered, counts>>

WatcherGoes ==
  /\ watcher /\ Trouble /\ watcher' = FALSE /\ registered' = FALSE /\ refused' = FALSE
  /\ drawn' = <<>>
  /\ Elsewhere /\ UNCHANGED <<boot, retry>>

Retry ==
  /\ retry /\ retry' = FALSE /\ EnsureRegistered
  /\ Elsewhere /\ UNCHANGED <<drawn, boot, watcher>>

-----------------------------------------------------------------------------
TrayNext ==
  \/ Connect \/ LoseDaemon \/ Draw
  \/ \E u \in Units : Flips(u)
  \/ \E r \in Refreshes : Ask(r) \/ List(r) \/ Apply(r) \/ AskTimesOut(r)
  \/ \E f \in Fixes : \/ \E i \in DOMAIN drawn : ClickRow(f, i)
                      \/ \E u \in Units : ClickPage(f, u)
                      \/ Match(f) \/ Restart(f) \/ Record(f) \/ FixTimesOut(f)
  \/ Watch \/ FirstTry \/ Retry \/ WatcherAppears \/ WatcherGoes

TraySpec == TrayInit /\ [][TrayNext]_trayVars

\* The client reconnects every RECONNECT_DELAY_S and polls every POLL_INTERVAL_S,
\* requests are answered, and systemd brings the daemon back. A panel that has the
\* watcher's name answers a registration, if only by an error.
FairTraySpec ==
  /\ TraySpec
  /\ WF_trayVars(Connect)
  /\ \A r \in Refreshes : WF_trayVars(Ask(r)) /\ WF_trayVars(List(r)) /\ WF_trayVars(Apply(r))
  /\ \A f \in Fixes : WF_trayVars(Match(f)) /\ WF_trayVars(Restart(f)) /\ WF_trayVars(Record(f))
  /\ WF_trayVars(Watch) /\ WF_trayVars(FirstTry) /\ WF_trayVars(Retry)

-----------------------------------------------------------------------------
\* No stale row restarts a unit that is well: a unit the daemon restarts was failing at
\* some moment since the click, however old the menu or the page (server._restart_unit).
RestartsWereNeeded ==
  [][\A f \in Fixes : Restart(f) => fix[f].needed]_trayVars

\* When failures, daemon and timeouts have come to rest, the tray comes to show the
\* failures there are, whatever answers of overlapping refreshes were on their way.
ViewSettles == <>[](reach /\ Range(units) = failing)

\* A panel that comes, or comes back, and stays has the icon, or the last attempt to
\* register with it failed and no other is under way (sni.Registrar).
IconReturns == [](watcher => <>(registered \/ ~watcher \/ (refused /\ ~retry)))
=============================================================================
