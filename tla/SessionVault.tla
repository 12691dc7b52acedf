---------------------------- MODULE SessionVault ----------------------------
(***************************************************************************)
(* What the token vault promises the threads that share it.                *)
(*                                                                         *)
(* The vault is one injective assignment of tokens to real values, which   *)
(* lives for one session.  Every call takes effect in a single step        *)
(* between its invocation and its return; a call may raise when its save   *)
(* fails, but only after its effect.  There is no lock, no hash, no prime  *)
(* and no file here: TokenVault, which has them, implements this module.   *)
(***************************************************************************)
CONSTANTS Threads,  \* the threads that call the vault
          Values,   \* real values
          Tokens,   \* the integers a token is drawn from
          None,     \* "no token", "no value", "no argument"
          Raised    \* the outcome of a call that raised

VARIABLES assigned, \* assigned[v]: the token of v in this session, or None
          call,     \* call[t]: the call thread t is in
          ret,      \* ret[t]: the outcome of t's last call that was no verify
          verdict,  \* verdict[t]: what t's last verify returned
          window    \* window[t]: the answers that were true during t's verify

vars == <<assigned, call, ret, verdict, window>>

Idle == [op |-> "idle", arg |-> None, phase |-> "called"]

Unassigned == [v \in Values |-> None]

IsAssigned(a, k) == \E v \in Values : a[v] = k

\* The verifications in progress observe the assignment a.
Observe(a) ==
  window' = [t \in Threads |->
               IF call[t].op = "verify"
                 THEN window[t] \cup {IsAssigned(a, call[t].arg)}
                 ELSE window[t]]

-----------------------------------------------------------------------------
Init ==
  /\ assigned = Unassigned
  /\ call = [t \in Threads |-> Idle]
  /\ ret = [t \in Threads |-> None]
  /\ verdict = [t \in Threads |-> FALSE]
  /\ window = [t \in Threads |-> {FALSE}]

Begin(t, op, arg, b) ==
  /\ call[t].op = "idle"
  /\ call' = [call EXCEPT ![t] = [op |-> op, arg |-> arg, phase |-> "called"]]
  /\ ret' = [ret EXCEPT ![t] = None]
  /\ verdict' = [verdict EXCEPT ![t] = FALSE]
  /\ window' = [window EXCEPT ![t] = {b}]
  /\ UNCHANGED assigned

Invoke(t) ==
  \/ \E v \in Values : Begin(t, "tokenize", v, FALSE)
  \/ \E k \in Tokens : Begin(t, "detokenize", k, FALSE)
  \/ Begin(t, "new_session", None, FALSE)
  \/ \E k \in Tokens : Begin(t, "verify", k, IsAssigned(assigned, k))

\* A value that has no token gets one that no other value has.
Assign(t) ==
  /\ call[t].op = "tokenize" /\ call[t].phase = "called"
  /\ assigned[call[t].arg] = None
  /\ \E k \in Tokens :
       /\ ~ IsAssigned(assigned, k)
       /\ assigned' = [assigned EXCEPT ![call[t].arg] = k]
  /\ call' = [call EXCEPT ![t].phase = "effective"]
  /\ Observe(assigned')
  /\ UNCHANGED <<ret, verdict>>

\* All assignments of the session are forgotten at once.
Forget(t) ==
  /\ call[t].op = "new_session" /\ call[t].phase = "called"
  /\ assigned' = Unassigned
  /\ call' = [call EXCEPT ![t].phase = "effective"]
  /\ Observe(assigned')
  /\ UNCHANGED <<ret, verdict>>

Return(t, r) ==
  /\ call' = [call EXCEPT ![t] = Idle]
  /\ ret' = [ret EXCEPT ![t] = r]
  /\ UNCHANGED <<assigned, verdict, window>>

\* A token handed out is registered at that moment.
ReturnToken(t) ==
  /\ call[t].op = "tokenize"
  /\ assigned[call[t].arg] # None
  /\ Return(t, assigned[call[t].arg])

ReturnSession(t) ==
  /\ call[t].op = "new_session" /\ call[t].phase = "effective"
  /\ Return(t, None)

ReturnRaised(t) ==
  /\ call[t].op \in {"tokenize", "new_session"} /\ call[t].phase = "effective"
  /\ Return(t, Raised)

ReturnValue(t) ==
  /\ call[t].op = "detokenize"
  /\ \/ \E v \in Values : assigned[v] = call[t].arg /\ Return(t, v)
     \/ ~ IsAssigned(assigned, call[t].arg) /\ Return(t, None)

\* verify answers with the state of some moment of the call.
ReturnVerdict(t) ==
  /\ call[t].op = "verify"
  /\ \E b \in window[t] : verdict' = [verdict EXCEPT ![t] = b]
  /\ call' = [call EXCEPT ![t] = Idle]
  /\ UNCHANGED <<assigned, ret, window>>

Next ==
  \E t \in Threads :
    \/ Invoke(t) \/ Assign(t) \/ Forget(t)
    \/ ReturnToken(t) \/ ReturnSession(t) \/ ReturnRaised(t)
    \/ ReturnValue(t) \/ ReturnVerdict(t)

Spec == Init /\ [][Next]_vars
=============================================================================
