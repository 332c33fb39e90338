------------------------------ MODULE Lifecycle ------------------------------
(***************************************************************************)
(* The life of the glimpse-agent process (agent/main.go): main checks its  *)
(* flags, starts three servers and the goroutine that waits for a signal,  *)
(* and exits with the first thing that comes out of the channel errc.      *)
(***************************************************************************)
EXTENDS Naturals, Sequences

CONSTANT cap   \* the capacity of errc
ASSUME LifecycleAssumption == cap \in Nat \ {0}

Server == {"dns/tcp", "dns/udp", "http"}
Sender == Server \cup {"signal"}

VARIABLES
  main,    \* setup, waiting or exited
  cause,   \* why it exited
  errc,
  go,      \* by goroutine: off, starting, ready, sending, sent
  sig      \* toggles with every signal sent to the process

vars == <<main, cause, errc, go, sig>>

Init ==
  /\ main = "setup" /\ cause = "" /\ errc = <<>>
  /\ go = [s \in Sender |-> "off"]
  /\ sig = FALSE

Goto(s, here, there) ==
  main # "exited" /\ go[s] = here /\ go' = [go EXCEPT ![s] = there]

exit(why) == main' = "exited" /\ cause' = why

\* an invalid -dns.zone or -consul.addr
SetupFails ==
  /\ main = "setup" /\ exit("config")
  /\ UNCHANGED <<errc, go, sig>>

StartAll ==
  /\ main = "setup" /\ main' = "waiting"
  /\ go' = [s \in Sender |-> "starting"]
  /\ UNCHANGED <<cause, errc, sig>>

\* a server is bound to its address; signal.Notify is done
Ready(s) ==
  /\ Goto(s, "starting", "ready")
  /\ UNCHANGED <<main, cause, errc, sig>>

\* a server cannot bind to its address.  Later only the HTTP server can fail:
\* those of the DNS library go on after every error
Fail(s) ==
  /\ \/ Goto(s, "starting", "sending")
     \/ s = "http" /\ Goto(s, "ready", "sending")
  /\ UNCHANGED <<main, cause, errc, sig>>

\* the send of a goroutine, which waits while errc is full
Send(s) ==
  /\ Len(errc) < cap /\ errc' = Append(errc, s)
  /\ Goto(s, "sending", "sent")
  /\ UNCHANGED <<main, cause, sig>>

\* mutant: interrupt takes a signal if there is one, and gives up otherwise
Listen_NonBlocking ==
  /\ Goto("signal", "ready", "sent")
  /\ UNCHANGED <<main, cause, errc, sig>>

\* the goroutine of interrupt reaches its receive
Listen ==
  /\ Goto("signal", "ready", "listening")
  /\ UNCHANGED <<main, cause, errc, sig>>

\* SIGINT or SIGTERM.  Before signal.Notify it kills the process; after it, it
\* is handed to a goroutine that is waiting for it, and dropped if none is:
\* the channel has no buffer
Signal ==
  /\ main # "exited" /\ sig' = ~sig
  /\ \/ /\ go["signal"] \in {"off", "starting"}
        /\ exit("killed") /\ UNCHANGED go
     \/ /\ go["signal"] = "listening"
        /\ go' = [go EXCEPT !["signal"] = "sending"]
        /\ UNCHANGED <<main, cause>>
     \/ /\ go["signal"] \in {"ready", "sending", "sent"}
        /\ UNCHANGED <<main, cause, go>>
  /\ UNCHANGED errc

\* mutant: main waits for a signal only
Receive_SignalOnly ==
  /\ main = "waiting" /\ errc # <<>>
  /\ Head(errc) = "signal" /\ exit(Head(errc))
  /\ errc' = Tail(errc)
  /\ UNCHANGED <<go, sig>>

\* logger.Fatalln(<-errc)
Receive ==
  /\ main = "waiting" /\ errc # <<>>
  /\ exit(Head(errc)) /\ errc' = Tail(errc)
  /\ UNCHANGED <<go, sig>>

Next ==
  \/ SetupFails \/ StartAll \/ Receive \/ Listen \/ Signal
  \/ \E s \in Sender : Ready(s) \/ Send(s)
  \/ \E s \in Server : Fail(s)

Spec == Init /\ [][Next]_vars

\* goroutines run; whether a server fails or a signal comes is up to others
Fairness ==
  /\ WF_vars(Receive) /\ WF_vars(Listen) /\ WF_vars(Ready("signal"))
  /\ \A s \in Sender : WF_vars(Send(s))
FairSpec == Spec /\ Fairness

-----------------------------------------------------------------------------
(* Properties.                                                             *)

\* A server that fails takes the process with it, for its supervisor to
\* restart, also when several fail at once and errc has room for one.
FailureEndsProcess ==
  \A s \in Server : go[s] = "sending" ~> main = "exited"

\* Signals can be lost, but not for ever: someone who keeps sending them
\* stops the process.
SignalsHeard == ([]<>sig /\ []<>(~sig)) => <>(main = "exited")
=============================================================================
