------------------------------ MODULE HostProbe ------------------------------
(***************************************************************************)
(* The connect() tap: the eBPF program writes one ring buffer record per   *)
(* outbound TCP connection (internal/network/ebpf/bpf/probe.c), a reader   *)
(* goroutine decodes the records, keeps those the configuration asks for   *)
(* and pushes them as events (internal/network/ebpf/service.go).           *)
(*                                                                         *)
(* The probe runs on the CPU of the connecting process, so several may     *)
(* hold a record at once.  Addresses and ports are their bytes, as the     *)
(* kernel stores them, in network byte order.  What a socket holds as      *)
(* tcp_v4_connect is entered is the kernel's matter: the destination, or   *)
(* zeros where the kernel assigns it later; both are among Dests.          *)
(***************************************************************************)
EXTENDS Integers, Sequences

CONSTANTS
  Pids,            \* processes, by number
  Dests,           \* what sockets hold: four address bytes and two port bytes
  TorPorts,        \* EBPFConfig.TorPorts
  ExitNodes,       \* addresses (as bytes) ExitNodeService knows
  EgressModes,     \* values of EBPFConfig.WatchAllEgress
  RingSlots,       \* records the ring buffer holds
  MaxConnects      \* bound on the connections

Byte == 0..255

ASSUME HostProbeAssumption ==
  /\ Pids \subseteq Nat \ {0}
  /\ \A d \in Dests : d.addr \in [1..4 -> Byte] /\ d.port \in [1..2 -> Byte]
  /\ TorPorts \subseteq 0..65535 /\ EgressModes \subseteq BOOLEAN
  /\ RingSlots \in Nat /\ MaxConnects \in Nat

Blank == [pid |-> 0, addr |-> <<0, 0, 0, 0>>, port |-> <<0, 0>>]

VARIABLES
  watchAll,   \* WatchAllEgress
  cpu,        \* process -> 0, or the connection whose probe is running
  conns,      \* history: connections that got a record, in that order
  attempts,   \* connections attempted
  ring,       \* records: connection, busy flag, contents
  reading,    \* the reader is open
  reports     \* events pushed

probeVars == <<watchAll, cpu, conns, attempts, ring, reading, reports>>

ProbeInit ==
  /\ watchAll \in EgressModes
  /\ cpu = [p \in Pids |-> 0]
  /\ conns = <<>> /\ attempts = 0
  /\ ring = <<>> /\ reading = TRUE
  /\ reports = <<>>

-----------------------------------------------------------------------------
(* The kernel side.                                                        *)

\* bpf_ringbuf_reserve: a busy record at the end of the ring, or none.
Reserve(p, d) ==
  /\ cpu[p] = 0 /\ attempts < MaxConnects
  /\ attempts' = attempts + 1
  /\ IF Len(ring) < RingSlots
     THEN /\ conns' = Append(conns, [pid |-> p, addr |-> d.addr, port |-> d.port])
          /\ cpu' = [cpu EXCEPT ![p] = Len(conns) + 1]
          /\ ring' = Append(ring, [conn |-> Len(conns) + 1, busy |-> TRUE, ev |-> Blank])
     ELSE UNCHANGED <<conns, cpu, ring>>
  /\ UNCHANGED <<watchAll, reading, reports>>

\* The record of process p's probe, while it holds one.
SlotOf(p) == CHOOSE k \in 1..Len(ring) : ring[k].conn = cpu[p]
Holds(p) == cpu[p] # 0 /\ \E k \in 1..Len(ring) : ring[k].conn = cpu[p]

\* pid, address and port are read into the record.
Fill(p) ==
  /\ Holds(p) /\ ring[SlotOf(p)].ev = Blank
  /\ ring' = [ring EXCEPT ![SlotOf(p)].ev = conns[cpu[p]]]
  /\ UNCHANGED <<watchAll, cpu, conns, attempts, reading, reports>>

\* The record handed over without waiting for its fields.
SubmitEarly(p) ==
  /\ Holds(p)
  /\ ring' = [ring EXCEPT ![SlotOf(p)].busy = FALSE]
  /\ cpu' = [cpu EXCEPT ![p] = 0]
  /\ UNCHANGED <<watchAll, conns, attempts, reading, reports>>

\* bpf_ringbuf_submit.
Submit(p) ==
  /\ Holds(p) /\ ring[SlotOf(p)].ev # Blank
  /\ ring' = [ring EXCEPT ![SlotOf(p)].busy = FALSE]
  /\ cpu' = [cpu EXCEPT ![p] = 0]
  /\ UNCHANGED <<watchAll, conns, attempts, reading, reports>>

-----------------------------------------------------------------------------
(* The reader.                                                             *)

\* binary.Read with LittleEndian.
uint32LE(b) == b[1] + 2^8 * b[2] + 2^16 * b[3] + 2^24 * b[4]
uint16LE(b) == b[1] + 2^8 * b[2]

\* binary.BigEndian.PutUint32.
putUint32BE(n) == <<n \div 2^24, (n \div 2^16) % 2^8, (n \div 2^8) % 2^8, n % 2^8>>

ntohs(n) == ((n * 2^8) % 2^16) + (n \div 2^8)

\* The event handleEvent builds from a decoded record.
event(ev) ==
  LET destIP == putUint32BE(uint32LE(ev.addr))
      destPort == ntohs(uint16LE(ev.port))
  IN [pid |-> ev.pid, ip |-> destIP, port |-> destPort,
      torPort |-> destPort \in TorPorts, torExit |-> destIP \in ExitNodes]

kept(e) == watchAll \/ e.torPort \/ e.torExit

\* readLoop: the oldest record, once it is submitted, is decoded and handled.
ReadRecord ==
  /\ reading /\ ring # <<>> /\ ~ Head(ring).busy
  /\ ring' = Tail(ring)
  /\ LET e == event(Head(ring).ev)
     IN reports' = IF kept(e) THEN Append(reports, [conn |-> Head(ring).conn, event |-> e])
                              ELSE reports
  /\ UNCHANGED <<watchAll, cpu, conns, attempts, reading>>

\* The context ends: the reader is closed, the probe stays attached.
CloseReader ==
  /\ reading /\ reading' = FALSE
  /\ UNCHANGED <<watchAll, cpu, conns, attempts, ring, reports>>

ProbeNext ==
  \/ \E p \in Pids, d \in Dests : Reserve(p, d)
  \/ \E p \in Pids : Fill(p) \/ Submit(p)
  \/ ReadRecord
  \/ CloseReader

ProbeSpec == ProbeInit /\ [][ProbeNext]_probeVars

-----------------------------------------------------------------------------
(* Properties.                                                             *)

(* Type invariant; a record is busy exactly while one running probe holds  *)
(* it, so a record never given back does not stop the reader.              *)
ProbeTypeOK ==
  /\ cpu \in [Pids -> 0..MaxConnects] /\ Len(ring) <= RingSlots
  /\ attempts \in 0..MaxConnects /\ Len(conns) <= attempts
  /\ \A k \in 1..Len(ring) :
       ring[k].busy <=> \E p \in Pids : cpu[p] = ring[k].conn
  /\ \A p, q \in Pids : cpu[p] = cpu[q] /\ cpu[p] # 0 => p = q

\* A port number as it appears on the wire.
PortNumber(b) == 2^8 * b[1] + b[2]

(* probe.c: "emits one ring buffer record per outbound TCP connection      *)
(* attempt", "tagged with the calling process's pid/comm and the           *)
(* destination addr/port": each event is one connection, none is reported  *)
(* twice or out of order, and the process and the port its socket held are *)
(* its own however the probes of several processes and the reader          *)
(* interleave.  And a connection whose socket holds a Tor port, or any at  *)
(* all when all egress is watched, is lost only when the ring was full as  *)
(* it was made: from then on it is in the ring or among the events.        *)
ConnectsReported ==
  /\ \A j, k \in 1..Len(reports) : j < k => reports[j].conn < reports[k].conn
  /\ \A k \in 1..Len(reports) :
       LET c == conns[reports[k].conn] IN
       /\ reports[k].event.pid = c.pid
       /\ reports[k].event.port = PortNumber(c.port)
  /\ \A n \in 1..Len(conns) :
       watchAll \/ PortNumber(conns[n].port) \in TorPorts =>
         \/ \E k \in 1..Len(ring) : ring[k].conn = n
         \/ \E k \in 1..Len(reports) : reports[k].conn = n

(* probe.c tags a record with "the destination addr/port", and service.go  *)
(* says of the address that it "is already network byte order": an event   *)
(* names the address the socket held.  The bytes come out reversed, since  *)
(* the record was decoded as little-endian.                                *)
AddressReported ==
  \A k \in 1..Len(reports) : reports[k].event.ip = conns[reports[k].conn].addr
=============================================================================
