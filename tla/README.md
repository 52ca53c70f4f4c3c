# networking-mlnx: formal models

TLA+ models of the parts of networking-mlnx whose correctness depends on what
happens between their steps: on the server, the mechanism driver that records
Neutron's operations, the journal that carries them to an SDN controller, the
threads that work on it and the maintenance of its table; on a compute node, the L2 agent, the eswitchd daemon that
configures the virtual functions (VFs), and the messages between them. Each
model is translated from the code under `src/networking_mlnx/`; `PROJECT.json` gives the lines of every definition.

## 1. Inventory

### The server side (ML2 mechanism driver `sdnmechdriver`)

| Component | State | Operations | Interacts with |
|---|---|---|---|
| SDN mechanism driver (`plugins/ml2/drivers/sdn/sdn_mech_driver.py`) | none of its own | precommit and postcommit handlers of networks and ports, `bind_port` | inserts rows into the journal in Neutron's transaction; sets the journal thread's event after it |
| Journal thread (`journal/journal.py`), one per neutron-server process | event, lock, timer; the row in hand | `set_sync_event`, `_sync_pending_rows`, `_sync_progress_rows` | the journal table, the REST client |
| Dependency validation (`journal/dependency_validations.py`) | none | one or two queries for each row | the journal table |
| Journal database (`db/db.py`, `db/models/`) | tables `sdn_journal` and `sdn_maintenance` | claim, blind updates, filters, maintenance lock | shared by all processes |
| REST client (`plugins/ml2/drivers/sdn/client.py`) | none: it logs in before each request | get, put, post, delete | the controller (NEO); decides which answers are errors |
| Cleanup (`journal/cleanup.py`) and maintenance thread (`journal/maintenance.py`) | its timer | delete old completed rows, reset orphaned rows; lock, run, unlock | both tables |

### The compute side

| Component | State | Operations | Interacts with |
|---|---|---|---|
| L2 agent (`plugins/ml2/drivers/mlnx/agent/`) | `network_map`, `updated_ports`, the last scan, the resync flag | the polling loop; RPC callbacks in other green threads | Neutron by RPC; the daemon by ZeroMQ REQ/REP with timeouts and retries |
| eswitchd (`eswitchd/`) | port table, port policy and VFs of each eSwitch; the device database | `plug_nic`, `delete_port`, `set_vlan`, `port_release`, `get_vnics`; device scan at start | the agent and `ebrctl`; sysfs and libvirt |
| `ebrctl` (`eswitchd/cli/`) | none | `add-port`, `del-port`, called by Nova | the daemon, one request per call |
| `ebr_dbg`, PCI helpers, Mellanox mechanism driver, DHCP driver, migrations, deployment | none that outlives a call | | |

### What is hard, and what makes each component correct

*Journal.* Every write to a row except the claim is an UPDATE by primary key
that ignores the state it replaces, and threads of several processes work on
the same table. A thread may be overtaken at any point by the reset of its row
(`processing_timeout`), may die, may hold a list of monitored rows that is out
of date. Requests are sent again after lost answers, answers without a job
and failed logins. It is correct if the controller gets operations in
an order it can follow, if no operation is lost, if a row under a job always
says which job, if two threads do not work on one row, and if it empties.

*Mechanism driver.* It keeps no state: it infers from two versions of a port
that an instance was created, deleted or migrated, while `bind_port` works
outside the transactions with a version that may be out of date, and its
deletions may fail unseen. It is correct if every POST of a port on a host gets
its DELETE, if a bound port is not deleted from its host, and if the
information about a baremetal port reaches the controller.

*Waking the thread.* An event, a timer that cancels and restarts itself,
and a lock around both. Correct if no announced row is slept over, if timers
neither multiply nor die out, and if rows nobody announces are found too.

*Maintenance.* A lock in the database that does not name its holder. Correct if
two servers never run maintenance at once and if failing operations do not
stop it.

*Agent.* It finds out by polling what Nova did, hears from Neutron what ports
should be, and loses its place at every exception: a resync must find again
whatever was left undone, although the scan, the updates and Neutron's answers
have moved on. It is correct if no update and no removal is forgotten, and if
every vnic is as Neutron says in the end.

*Messaging.* Green threads share one REQ socket; a request that timed out is
sent again on a new one while the daemon may still serve the first. It is correct
if an answer is never taken for that of another request and every call ends.

*Daemon.* Two tables and the hardware are written one after another by
requests of two clients, and a command may fail in between; at a new start the
tables are rebuilt from libvirt and sysfs. It is correct if the tables agree on
which VF carries a vnic, if a guest never gets the VLAN of another, and if every
request can be answered.

`PROJECT.json`, `hazards`, lists the places where this bites, with the
properties that look for it.

## 2. Modules

| Module | Models | Extends / used by |
|---|---|---|
| `JournalDeps` | the recorded operations, and for each row the rows its validator waits for | |
| `JournalOrder` | abstract: what the journal promises to the controller | `JournalDeps` |
| `SdnJournal` | journal threads, table, REST client, controller, maintenance operations, Neutron's calls | `JournalDeps`, instance of `JournalOrder` |
| `MCSdnJournal` | constants, symmetry and a view for TLC | `SdnJournal` |
| `SdnJournalProofs` | theorems that hold whatever fails | `SdnJournal`, TLAPS |
| `SdnJournalMirrorProofs` | theorems about what threads leave to one another and what the controller ends up with | `SdnJournalProofs` |
| `SdnMechDriver` | the handlers of the driver, `bind_port` and ML2's commit of its result | `JournalDeps`, instance of `SdnJournal` |
| `MCSdnMechDriver` | constants for TLC | `SdnMechDriver` |
| `SdnMechDriverProofs` | theorems | `SdnMechDriver`, TLAPS |
| `SyncEvent` | `set_sync_event`, the timer, `run_sync_thread` | |
| `SyncEventProofs` | theorems | `SyncEvent`, TLAPS |
| `MaintenanceLock` | `execute_ops` in several servers | |
| `MaintenanceLockProofs` | theorems | `MaintenanceLock`, TLAPS |
| `Eswitchd` | port table, port policy, hardware; Nova's, the agent's and the daemon's own actions on them | |
| `MCEswitchd` | symmetry for TLC | `Eswitchd` |
| `EswitchdProofs` | theorems | `Eswitchd`, TLAPS |
| `EswitchCall` | abstract: what a call of the daemon promises | |
| `EswitchRpc` | `send_msg`, its retries, the daemon's queue | instance of `EswitchCall` |
| `EswitchRpcProofs` | theorems | `EswitchRpc`, TLAPS |
| `MlnxAgent` | the agent's loop and callbacks, composed with the daemon | `Eswitchd` |
| `MlnxAgentProofs` | theorems | `MlnxAgent`, `EswitchdProofs` |

### SdnJournal: state and actions

`entry` holds what never changes in a row (object, operation, `created_at`), by
order of insertion; `state`, `age` (the clock minus `last_retried`), `hasJob`
and `retries` are the columns that are rewritten. `worker[w]` is the journal
thread of a process: where it stands (`pc`), its row, what it read of it. `applied`
is what the controller holds of each object, `accepted`, `finished` and
`dropped` are history.

| Actions | Code |
|---|---|
| `CreateNetwork` ... `DeletePort` | precommit handlers: the row is inserted in Neutron's transaction, or is not (the driver's conditions, left open) |
| `BindPort` | `bind_port`: a POST in a transaction of its own, possibly after the port was deleted |
| `Wake`, `Claim`, `NothingPending` | `run_sync_thread`, `get_oldest_pending_db_row_with_lock` |
| `CheckFirst`, `CheckSecond` | the queries of the validator, each its own transaction |
| `SendTaken`, `SendNeedless`, `SendRefused`, `SendLoginFails` | the request, from the controller's side |
| `ReplyNeedless`, `ReplyJob`, `SetMonitoring`, `ReplyNoJob`, `ReplyRaises` | the branches on the response; the job id and the state are two transactions |
| `ListMonitored`, `PollJob`, `HandleAnswer` | `_sync_progress_rows` |
| `DeleteCompletedRows`, `ResetProcessingRows` | `cleanup.py` |
| `Crash`, `Tick` | a process dies and is restarted; time |

Steps are transactions and HTTP exchanges: that is where the code can be
interrupted. `Raises` says which responses the client raises. The handlers
in `except SDNConnectionError and SDNLoginError` catch `SDNLoginError` only, as
Python evaluates the expression, so every other error ends the run.
An UPDATE of a row that has been deleted matches nothing, the ORM raises, and
the run ends (`SetState`).

Abstractions, all towards more behaviour unless said otherwise:

* Rows are polled in any order, not by `last_retried`.
* A job ends well or badly whenever the model chooses (`job_failed` is bounded).
* `age` counts only as far as somebody looks: a row in processing or completed
  just past its timeout, a pending row far enough to keep its place in the
  claim's order (`Ages`).
* Neutron's calls are atomic and commit in the order of insertion. Two
  uncommitted transactions that commit in the other order are not modelled.
* The model stops recording at `MaxRows` rows.
* The 404 to a DELETE comes when the controller lacks the object. A DELETE
  that overtakes the job that is still creating the object is not modelled.
* The maintenance operations of `SdnJournal` run at any time; that only one
  server runs them is what `MaintenanceLock` shows.

### SdnMechDriver: state and actions

`neutron`, `kind`, `attrs` and `bound` are Neutron's objects: the segments of each
network, the vnic type, host, owner and information of each port, the ports with a binding.
All attributes of a port may change with every update, the vnic type too: Ironic makes a
port baremetal when it plugs it, and the driver branches on the type of the new version.
`binding` holds the calls of `bind_port` under way and the port each was given.
`entry` is the journal, as in `SdnJournal`, and `data` what each row says of its port.
`announced`, `orphans` and `outdated` are history the properties are stated with:
bound ports whose POST nothing has undone, ports and hosts the driver has lost sight of
(`Hides`, `Overtaken`, the deletions it does not record), and ports whose last POST need not
have their information.

| Actions | Code |
|---|---|
| `CreateNetwork`, `UpdateNetwork`, `DeleteNetwork` | the precommit handlers, under `error_handler` (`Handler`): a row, none by the conditions, or none because the exception was hidden |
| `CreatePort`, `UpdatePort` (`UpdatePrecommit`, `NewInfo`, `LeavesHost`) | the handlers without `error_handler`; ML2 drops the binding with the host, the vnic type or the profile |
| `DeletePort` (`Followed`) | `delete_port_precommit` |
| `StartBinding`, `BindPort`, `CommitBinding` | ML2 reads the port, `bind_port` records its POST, ML2 commits the result if the port is still the one it read, and calls the update handler |

A handler is one step because it is one transaction. `StartBinding` and the condition
of `CommitBinding` are ML2's and external; the row that `CommitBinding` records is the
driver's. With `INSTANCE SdnJournal` (every row pending, no threads)
`RecordingSpec` says that the driver records as `SdnJournal` supposes, so the
journal's properties hold with this driver in front of it.
The QoS policy a row carries, and `sync_from_callback`, which nothing calls, are left
out; so are the seconds of `created_at`.

### SyncEvent: state and actions

`event`, `lock`, `timer` (`self._timer`), `armed` (timers that run), `caller`
(where each API thread or timer callback stands in `set_sync_event`), `sync`
(where the thread stands in `run_sync_thread`). `unseen` are the API threads with
a committed row no query has looked for, `announced` those of them whose
`set_sync_event` has returned. `Acquire`, `CancelTimer`, `StartTimer` and
`SetEvent` are the lines of `set_sync_event`; `Expire` is a timer going off;
`Wait`, `Clear`, `SyncPending`, `SyncProgress` are those of `run_sync_thread`;
`RunFails` is the exception that ends a run, `Restart` a new process. `Timers`
is the pool of Timer objects; that one is always free is a bound.

### MaintenanceLock: state and actions

`state` and `processing` are the columns of the one row of `sdn_maintenance`,
`place` and `op` where each server stands in `execute_ops`. `Lock`, `Name`,
`Execute`, `Clear`, `Unlock` are its calls; `Skip` is an operation that could not be
named, `ReleaseFails` the finally clause raising, `Crash` a dying server. A
lock whose holder died stays taken: then no step is left but idle ones, which
is why its run does not check for deadlock.

### Eswitchd: state and actions

`vnic` and `state` are the columns of the port table, `dev` and `vlan` those of the
port policy, `guid` and `pkey` what sysfs holds of each VF; `place`, `plugged` and
`domain` are Nova's side: the VF it gave each vnic, the vnics whose last `add-port`
succeeded, the VFs libvirt has in a domain. `asked` is the history of the agent's
`set_vlan` requests.

| Actions | Code |
|---|---|
| `Plug` (`PlugNic`, `ConfigVf`) | `plug_nic`: both tables, then a command per attribute, any of which may fail, then the state |
| `Unplug` (`DeletePort`, `DetachVnic`) | `delete_port`; Nova gives the VF back, or keeps it for the guest |
| `AgentSetsVlan` (`SetVlan`, `ConfigVlan`) | `set_vlan`: the policy, then the pkey, if the port has it |
| `AgentReleases` (`PortRelease`, `DropPolicy`) | `port_release` |
| `DaemonRestarts` (`Restart`, `FirstVf`, `MacOf`) | a new process: `add_fabrics`, `sync_devices`; or a scan that cannot read the GUIDs |
| `DefineDomain` | libvirt gets the domain of a guest that was plugged |

A request is one step: the daemon serves one at a time. Nova gives a VF to one vnic at
a time; the agent may ask for anything at any time. `Writes` counts the commands
of `_config_vf_mac_address` that succeed before one fails.

What the model shows of the code, and does not hold against it:

* The agent calls `port_release` for vnics that have gone, and `port_release` finds
  attached ones only: it then clears nothing, although the agent's docstring
  (`mlnx_eswitch_neutron_agent.py:128`) says "Clear port configuration from eSwitch".
  The next plug of the VF writes over what is left.
* `set_vlan` to a VLAN whose pkey the port does not have writes nothing and answers
  OK (`eswitch_handler.py:356`): the VF keeps the pkey it had.
* `port_release` of an attached vnic drops its policy, so a `delete_port` after it
  finds nothing and the hardware keeps GUID and pkey. `NoForeignVlan` holds
  since the GUID stays too.
* On an MLNX5 a VF whose GUID was cleared reads as a MAC of its own (`ClearedMac`)
  and is attached as such at a new start. A plug that then fails leaves the
  GUID undecided, so `RightVf` speaks of the GUID for MLNX4 only.

Left out: device ids, aliases (`attach_vnic` is never given one), more than one PF to
a fabric or fabric to a host, sysfs paths.

### EswitchRpc: state and actions

`step` is where each call stands in `send_msg` and its decorator, `tries` its
attempts that timed out, `busy` the call that blocks the process (the poller is
not the green one), `conn` the number of the socket. `queue`, `work` and `replies`
are the requests not read, the one being served, and what is on its way back.
`Send`, `Receive`, `Timeout` and `WakeUp` are the lines of `send_msg` and of the
decorator; `Work`, `Reply` and `Restart` are the daemon's. Requests of different
connections are read in any order. The shell of ZeroMQ (reconnection, identity
frames) is external.

### MlnxAgent: state and actions

`port` is Neutron's port of each vnic, `notes` the `port_update` messages under way,
`reported` the last status Neutron was told. `updated`, `mapped`, `info` and `sync`
are `updated_ports`, the ports of `network_map`, `port_info` and the local `sync` of `run`.
`pc`, `todo`, `details`, `gone`, `at`, `resync` say where the loop stands in
`process_network_ports` and what it has in hand. `lost` remembers the devices an
agent knew before it was started again.

| Actions | Code |
|---|---|
| `ScanPorts`, `ScanTimesOut` | `scan_ports`: the request and the swap of `updated_ports` in one step, for no other thread runs in between |
| `Fetch`, `Treat`, `SetPortVlan`, `ReportDevice`, `AllTreated` | `treat_devices_added_or_updated`, `treat_vif_port`, `port_up` |
| `Remove`, `Release` | `treat_devices_removed`, `port_release` |
| `Finish`; `Aborts` in the steps above | the result of an iteration; an exception that ends it |
| `PortUpdate`, `NetworkDelete` | the RPC callbacks, between any two steps |
| `AgentRestarts`, `DaemonRestartsWell` | a new process |
| `NeutronUpdates`, `NeutronDeletes`, `NovaPlugs`, `NovaUnplugs`, `NovaDefines` | the world around the agent |

Steps end where the loop lets another green thread run: at calls of Neutron and at
the sleep between two attempts to reach the daemon. Any of these calls and requests may
fail, with or without its effect; the request of `Treat` (`vnic_port_exists`) has none.

Assumed:

* A request is served at once or never. That one which timed out may also be
  served later, after others, is in `EswitchRpc`.
* Nova plugs a vnic again only when the agent has treated its removal (`Known`). A
  vnic that goes and comes back between two scans, or between scan and removal, is not
  noticed by `scan_ports`, and its VLAN is lost (`hazards`, `:262`).
* The daemon is started again only when every plugged vnic is in a domain,
  and its scan succeeds (`DaemonRestartsWell`), for the same reason.
* Each port has a network of its own; networks are VLAN or flat. A network of
  another type sends a VLAN the daemon cannot take, and its exception keeps
  the devices behind it from being treated.
* The agent never meets an unreadable answer to `get_vnics`, which would end it:
  that is `AlwaysAnswerable`.

## 3. Runs

| Run | Bounds | Shows |
|---|---|---|
| `journal_order` | 1 network, 1 port, 2 rows, 2 threads, every kind of failure once, requests may outlast `processing_timeout` | `TypeOK`, `CausalOrder`, `MonitoringHasJob`, `NoLostOperation` |
| `journal_mirror` | 3 rows, 1 thread, one failure to send | `OrderSpec` (the refinement), `DrainedMirror` |
| `journal_exclusive` | 2 rows, 2 threads within the timeout, two failures to send, completed rows deleted, rows may share a second | `ExclusiveProcessing`, `DoneIsFinal`, `NeverTakenBack` |
| `journal_live` | 2 rows, 1 thread, every kind of failure once | `EventuallyDrained` |
| `journal_sent_once` | 1 row | violated: finding 1 |
| `journal_retries` | 1 row, `retry_count` 1 | violated: finding 2 |
| `sync_event` | 2 API threads, 3 timers, one failed run or restart | `TypeOK`, `OneTimer`, `TimerAlive`, `NoLostWakeup`, `EventuallySeen` |
| `maintenance` | 3 servers, 2 operations, each kind of failure twice | `TypeOK`, `MutualExclusion`, `RowIsTrue`, `KeepsRunning` |
| `eswitchd` | 2 VFs of an MLNX4 or an MLNX5, 2 vnics, 2 VLANs of which one has a pkey, 2 commands or scans that fail; restarts at any time | `TypeOK`, `AlwaysAnswerable`, `RightVf`, `NoForeignVlan`, `StaysAttached` |
| `eswitch_rpc` | 2 calls, `retries` 1 (2 attempts each), the daemon started again once; deadlock not checked, since ended calls leave nothing to do | `TypeOK`, `AnswerIsMine`, `SocketReady`, `NoLateService`, `CallSpec`, `CallsEnd` |
| `agent` | 2 VFs of an MLNX4, 2 vnics, flat and one VLAN, 2 changes (of Neutron, Nova's plugs, restarts), 1 failed request or call | `AgentTypeOK`, `NoForgottenUpdate`, `NoForgottenRemoval`, `DaemonSpec`, `Converges` |
| `mech_driver` | 1 network of any kind, 1 port on 2 hosts that is baremetal or not and changes it, 12 versions of its attributes (`MovesOrChanges`), 3 rows, 1 call of `bind_port` at a time, 1 hidden error; deadlock not checked, since the model stops at the last row | `TypeOK`, `NoStaleHost`, `BoundIsHeld`, `InfoPosted`, `RecordingSpec` |

Why these bounds. A dependency relates two rows, of a network and its port or
of one object; two rows and two threads show every way in which one thread
overtakes another on a row or on a dependency. `DrainedMirror` needs three rows
(create, update, delete, or a DELETE that waits for two rows). One failure
is enough to have a row sent twice, lost by its thread or given up; two, to have
it twice in a row. Three rows of the driver are a port's POST, its DELETE and the
POST on the next host, or a POST and two changes, with any number of changes that are not
recorded between them; two ports share nothing but the network. The theorems cover several calls
of `bind_port` at once, every version of a port and every other bound. Timeouts of 0 and 1 ticks reach every
order of a timeout and the event it races. Two VFs and two vnics let a vnic move to
the VF another has left. Two changes and one failure let the agent fail
on an update or a removal and hear of the next one meanwhile; a plug, an update, an
unplug and a restart each count as one or none (unplugging and defining a domain
are free). `agent` sets no faults of the daemon's commands (`MaxFaults`): to the
agent they look like the failed requests it has, and `eswitchd` checks
what they do. Three timers allow a running timer
and two callbacks at once.

What the runs leave out on purpose:

* `journal_mirror` and `journal_exclusive` exclude jobs that fail and polls that fail
  (`SendFaults`). With them `DrainedMirror` and `NeverTakenBack` do not hold: a row in monitoring no longer
  holds others back, so a job that fails is sent again after operations
  that came later (`journal.py:212-218`). Nor do they hold if the controller answers 501
  to a request, for the row is then completed without effect (`journal.py:140`). `ExclusiveProcessing` does not
  hold either: a poller with an old list puts a row back to pending that another
  thread has claimed (`journal.py:188`, `:226`, `:231`).
* `journal_mirror` has one thread, for size: three rows and two threads are
  beyond the time a run should take. `DrainedMirrorCorrect` covers any number of both.
  `DrainedMirror` needs the threads to keep
  within the processing timeout; a thread that outlasts it sends its row once
  more around a later one.
* `DistinctSeconds`, in `journal_mirror`: two rows of an object recorded in one second
  are not ordered by `created_at` at all. `journal_exclusive` does without it:
  `NeverTakenBack` says what is left of the order then, and the theorem `DrainedToTheSecondCorrect`
  what that leaves of `DrainedMirror`.
* `Timely` in `journal_exclusive`: `ExclusiveProcessing` is what `processing_timeout`
  is meant to give as long as a request does not outlast it.
  `journal_order` does without.

### Fairness

`journal_live`: a waiting thread is woken (the timer runs for ever, which
`SyncEvent` shows), a request returns (it has a timeout), the maintenance thread
runs at its interval, and time passes: weak fairness. That a job ends needs strong
fairness of the poll that finds it ended, for the poll may find it running any
number of times. Nothing obliges Neutron to record, or a failure to happen.

`sync_event`: threads are scheduled and a timer left alone expires: weak fairness.
The steps of a caller are strongly fair, because it competes for a lock that is
held only for two short calls. API threads need not commit.

`maintenance`: looping calls go on after exceptions (`stop_on_exception=False`): weak
fairness of some server's attempt for the lock, and of the steps of a run.

`eswitch_rpc`: a poll returns after `request_timeout` and a sleep ends: weak fairness
of each call's steps. Nothing is asked of the daemon, which may be dead.

`agent`: the loop goes on after every exception, and Neutron's messages are delivered: weak
fairness of `LoopStep` and of each `PortUpdate`. Failures and changes end because they
are bounded (`MaxFailures`, `MaxChanges`); `Converges` is about what follows them.
`Converges` excludes the devices for which the code has no end: one that was removed
before the agent knew its port, or that went while the agent was down, raises in
`get_port_id_by_mac` at every resync.

## 4. Theorems

All theorems are proved for every value of the constants that satisfies the
named assumptions of the modules (finite set of threads, natural bounds).

| Theorem | Says |
|---|---|
| `TypeCorrect`, `CausalOrderCorrect`, `MonitoringHasJobCorrect`, `NoLostOperationCorrect` | `SdnJournal`'s invariants |
| `OrderCorrect` | `SdnJournal` implements `JournalOrder` |
| `OrderGivesCausality` | `JournalOrder` alone gives `CausalOrder` |
| `ExclusiveProcessingCorrect`, `DoneIsFinalCorrect` | threads stay apart, and what is done stays done, if `Steady` |
| `DrainedToTheSecondCorrect`, `NeverTakenBackCorrect` | what the controller holds at the end and on the way, if `Steady` and `AllSupported` |
| `DrainedMirrorCorrect` | the same to the row, if besides no two rows share a second |
| `SentOnceCorrect` | nothing is sent twice, if `Steady` and without the `Doubtful` failures |
| `TypeCorrect`, `NoStaleHostCorrect`, `BoundIsHeldCorrect`, `InfoPostedCorrect` | `SdnMechDriver`'s invariants |
| `RecordingCorrect` | `SdnMechDriver` records what `SdnJournal` allows |
| `TypeCorrect`, `OneTimerCorrect`, `TimerAliveCorrect`, `NoLostWakeupCorrect` | `SyncEvent`'s invariants |
| `TypeCorrect`, `MutualExclusionCorrect`, `RowIsTrueCorrect` | `MaintenanceLock`'s invariants |
| `TypeCorrect`, `AlwaysAnswerableCorrect`, `RightVfCorrect`, `NoForeignVlanCorrect`, `StaysAttachedCorrect` | `Eswitchd`'s invariants, and its action property |
| `TypeCorrect`, `AnswerIsMineCorrect`, `SocketReadyCorrect`, `NoLateServiceCorrect` | `EswitchRpc`'s invariants |
| `CallCorrect` | `EswitchRpc` implements `EswitchCall` |
| `AgentTypeCorrect`, `NoForgottenUpdateCorrect`, `NoForgottenRemovalCorrect` | `MlnxAgent`'s invariants |
| `DaemonCorrect` | `MlnxAgent` implements `Eswitchd` |
| `DaemonUnderAgent` | so what is proved of the daemon holds of the composition |

*The journal.* `CausalOrder` is not inductive: it says nothing of the thread that
is about to send. `IInv` adds

* `Lifecycle`: Neutron's objects go forward only, a network is deleted after its
  ports, rows carry times no later than now. With it `RecordDeps` shows that a
  new row is never a dependency of an older one, so what a thread has checked
  cannot be undone by recording.
* `RowsSound`: a row in a state that no longer holds others back was accepted or
  dropped. The set of settled rows only grows, and a row that is put back to pending
  is still settled; this is what makes blind writes harmless to the order.
* `ThreadsSound`: what a thread is about to write or send is still true,
  whoever wrote meanwhile: after the first query its first dependencies are
  settled, before the request all of them are; with a job id in hand the row was
  accepted; and so on.

The proof has one lemma for each action or group of actions that
disturbs the same part, over three generic lemmas for a row, a thread and
the controller changing. `OrderCorrect` maps recording, taking and giving up to the
abstract steps and the rest to stuttering. `OrderGivesCausality` goes the other way: the
abstract steps alone keep `CausalOrder`, whatever implements them.

*The journal, when nothing puts a row back.* The theorems of `SdnJournalMirrorProofs` assume
what their runs assume, as conditions on the constants:

* `Steady`: no thread holds a row longer than `processing_timeout` (`Timely`), and none of
  the three failures happens by which a poller puts a monitored row back to pending (`Rollbacks`:
  a job that failed, a failed login, a 501 to a poll).
* `AllSupported`: the controller answers no request with 501.
* `DistinctSeconds`, for `DrainedMirror` only.

Everything else may happen: crashes, lost answers, answers without a job, refusals, failed logins
before a request, polls that raise, resets, deletions, at any time and as often as `MaxFaults`,
which is any number, lets them. The argument has three parts.

1. `SteadyInv`: the row a thread has in hand is in processing, by nobody else's hand, and
   not past the timeout; the rows a thread polls, or still means to, are `Beyond`:
   monitored, completed or deleted. So a write by a thread that has been overtaken, which
   the UPDATE by primary key allows, does no harm, and `ResetProcessingRows` takes no row out of a
   hand. Every step of the system is shown to be `NoReturn`: a row that no longer waits to be
   sent never waits again.
2. `OlderIsDep`: every earlier row of an object is a dependency of every later one, though the
   validators ask for it in different ways: for ports and network PUTs by `created_at`, for a network
   DELETE by its operations, for a network POST not at all, since none can be earlier (`InOrder`).
3. `MirrorInv`: what a thread has validated cannot come back (`Validated`, from `NoReturn`); so
   when a row is sent, also when it is sent again, the rows it waits for are done with, and those of
   every accepted row are so for good (`OrderFinal`). The row last taken for an
   object is thus as late as any taken (`AppliedLast`): were a later one accepted, this one would
   be among its dependencies and could not be sent.

`SentOnceCorrect` is the other side of finding 1. `Accounted` says that a row which the controller
took is `Beyond`, or in the hand of a thread that has the answer and will write it. It fails exactly
for the failures of `Rollbacks` and `Doubtful` (a crash, a lost answer, an answer
without a job) and for a request that outlasts the timeout; with none of these seven `SentOnce` is proved. One of
them is a run of this project, the failed login while polling of `journal_sent_once`; the others
are not runs of it, but TLC finds `SentOnce` violated by each of them alone when that
configuration's `Faults` is replaced (with two rows for a job the controller answers 501
for), or `Timely` is FALSE and there are two threads.

*The driver.* `NoStaleHost` alone does not survive the deletion of a port, which records
a DELETE only if its owner is one the driver serves. `HeldInv` adds that a host the rows
leave a port on is `Watched`: the port is there and still baremetal or served, or the
driver lost sight of it. That is what an update which `Hides` nothing keeps: an update that
moves a port records its DELETE only if the new version is not baremetal and the old one
was served. `InfoInv` is `InfoPosted` for one port; it needs no more, since the update that
makes a port baremetal either brings something new, which is posted, or makes it `outdated`.
`CallsInv` says of each call of `bind_port` under way that its
POST, if nothing overtook it, is still the last word on its host, which is what
`BoundIsHeld` needs when ML2 commits. `RecordedHeld` says how a new row
changes the hosts held, and `Quiet` that a step without a row keeps them.

*The event.* `Locked`: whoever is between cancelling and starting holds the lock, and
from then on no timer runs. *The maintenance row.* `HeldInv`: while any server is in a
run the row is taken, and before it is released it has been cleared.

*The daemon.* `RightVf` alone does not survive a new start, whose tables come from what
libvirt and the hardware hold. `IInv` adds `OnePlace` (Nova gives a VF to one vnic),
`DomainOK` (a VF in a domain has the GUID of the vnic it was given for, or none),
`PluggedOK` (a plugged vnic has its GUID), `AttachedOK` (what may be attached) and `PkeyOK` (an
MLNX5 has no pkey). `ConfigVfSafe` shows that the order of the commands, pkey
before GUID, leaves no VF with the pkey of another guest whichever of them fails;
`Scans` and `ReadVf` show that a scan gives each vnic back its own VF.
The `...Keeps` lemmas say which steps leave a plugged vnic attached, to the same VF with the
same pkey; the agent's proof uses them as well.

*The messaging.* A reply or request on the open socket belongs to the call that is
polling; `CallCorrect` needs that a call has been served at most once for every
request it sent and is no longer in a queue.

*The agent.* `AgentInv` adds to the daemon's invariant what the loop has in hand wherever it
stands (`LoopOK`), that a vnic being removed is not plugged (`Separated`), that details which are
out of date come with a `port_update` (`Fresh`), and that the VLAN was written before the device
is reported (`VlanSet`). From these a vnic that is not as Neutron says is in some hand:
a message, `updated_ports`, the loop's list, or a resync. Every exception is one
lemma (`AbortsInvariant`): it leaves everything to the resync.

### Only model-checked

The liveness properties, `EventuallyDrained`, `EventuallySeen`, `KeepsRunning`, `CallsEnd` and
`Converges`: fairness and ENABLED are beyond the prover. Every invariant and every action property
a passing run checks is also a theorem. `RetriesLimited` is false (finding 2).

## 5. Findings

1. `journal.py:228-234`: a login that fails before a poll is commented as
   only logged and retried, but the row goes back to pending and the
   operation is sent again (`SentOnce`). What else repeats an operation, and that nothing
   more does, is `SentOnceCorrect`.
2. `journal.py:174`: only failed logins count as retries; `retry_count` does not bound
   how often a row the controller refuses is sent (`RetriesLimited`).

## 6. Not modelled

* *What the controller makes of rows it need not know, and of rows that are missing.* The
  driver records a PUT for a port it never posted or has deleted, updates and the
  deletion of flat networks that were never posted, and no DELETE for a baremetal port
  without host (`sdn_mech_driver.py:230`, `:128`, `:253`). As it branches on the vnic type
  of the new version (`:202`), an update that makes a port baremetal records no DELETE for
  the host it leaves, and no POST if neither its link information nor its client id is new;
  and ports of a network whose segments are of no supported type are posted by
  `create_port_precommit` and `update_port_precommit`, which have no `context_validator`,
  but not deleted. All this is in the model, and `NoStaleHost` and `InfoPosted` name it as
  their exceptions; how the controller answers is not in it.
* *A vnic that goes and comes back unnoticed*, and requests served late and out of
  order, in the composition of agent and daemon: see the assumptions of `MlnxAgent`.
* *Stateless code*: file reads and paths of the PCI helpers, the parser of `ebrctl`,
  `ebr_dbg`, the Mellanox and DHCP drivers, URLs and headers of the REST client.
* *Migrations and deployment.* Schema and installation scripts; the columns are
  modelled where they are used.
