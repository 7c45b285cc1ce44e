---------------------------- MODULE TrainControl ----------------------------
(* train_control.c on its sockets: the controllers of the express and of the  *)
(* local train, the conductor (TheFatController), the hall-sensor server, the *)
(* commands they give the Atmel, and the two trains on the track.             *)
(*                                                                            *)
(* A process handles one message at a time.  What it does to its own locals   *)
(* is one action; the messages it sends the conductor on the way to its next  *)
(* recv() go into todo[t] and leave one by one, interleaved with everybody    *)
(* else's.  What is sent to the display is left out.                          *)
EXTENDS Integers, Sequences

(* How the trains move is not in the code.  These say what of it is assumed.  *)
CONSTANTS
    ExpressWaits,  \* the express slows down enough to pass no sensor while it
                   \* waits for the local
    ExpressLag,    \* bound: sensors the local passes while the messages about
                   \* the express's last one are being handled
    LocalLag,      \* bound: sensors the express passes while those about the
                   \* local's last one are
    MaxGap         \* bound: sensors a train passes between two of the other
                   \* one's, if that one can move

ASSUME TrainAssumption ==
    /\ ExpressWaits \in BOOLEAN
    /\ ExpressLag \in Nat
    /\ LocalLag \in Nat
    /\ MaxGap \in Nat \ {0}

-----------------------------------------------------------------------------
(* train_control.h and the tables of train_control.c *)

Train == {"express", "local"}
Other(t) == IF t = "express" THEN "local" ELSE "express"

BRAKE   == 0
SPEED3  == 3
SPEED7  == 7
DIR_CCW == 16

(* Path 0 is a dwell.  col_area is the set of the bits set in the code's.     *)
Path(hs, sw, state, area) ==
    [hs |-> hs, sw_num |-> sw, state |-> state, col_area |-> area]

paths ==
    [p \in 0 .. 12 |->
        CASE p = 0  -> Path(<<0, 0, 0>>, 0, BRAKE, {})
          [] p = 1  -> Path(<<16, 16, 15>>, 0, 5, {})
          [] p = 2  -> Path(<<14, 10, 11>>, 0, 5, {1})
          [] p = 3  -> Path(<<8, 8, 7>>, 0, 5, {})
          [] p = 4  -> Path(<<6, 2, 3>>, 0, 5, {2})
          [] p = 5  -> Path(<<14, 20, 20>>, 1, 5, {})
          [] p = 6  -> Path(<<19, 9, 9>>, 3, 4, {1})
          [] p = 7  -> Path(<<6, 18, 18>>, 4, 5, {})
          [] p = 8  -> Path(<<17, 1, 1>>, 6, 4, {2})
          [] p = 9  -> Path(<<23, 10, 11>>, 2, 3, {1})
          [] p = 10 -> Path(<<11, 23, 23>>, 2, DIR_CCW + 6, {})
          [] p = 11 -> Path(<<21, 2, 3>>, 5, 3, {2})
          [] p = 12 -> Path(<<3, 21, 21>>, 5, DIR_CCW + 6, {})]

route == [express |-> <<3, 4, 1, 2>>,
          local |-> <<6, 10, 0, 9, 3, 7, 0, 8, 12, 0, 11, 1, 5, 0>>]

(* route[dst_indx], and dst_indx after it. *)
Leg(t, d) == route[t][d + 1]
NextIndx(t, d) == (d + 1) % Len(route[t])

START_OF_PATH == 0
END_OF_PATH   == 2

VARIABLES
    ctl,      \* the locals of express_controller and local_controller
    con,      \* the locals of TheFatController
    todo,     \* what each controller has still to send to the conductor
              \* before its next recv()
    mail,     \* the unread messages of CONDUCTOR, EXP_TR and LOC_TR_SOCKET
    told,     \* what the commands to the Atmel amount to
    atmel,    \* the triggered sensors hal_server has not read
    pos,      \* the leg of its route each train is on, and the sensors of its
              \* path it has passed
    lag,      \* what ExpressLag and LocalLag bound
    gap       \* what MaxGap bounds

vars == <<ctl, con, todo, mail, told, atmel, pos, lag, gap>>

Socket == Train \cup {"conductor"}

(* Messages to the conductor.  `train' is the train a message is about; no    *)
(* process reads it in TRIGGERED_HS, where it stands for nothing in the code. *)
NEW_TR_HS(t, hs) == [m |-> "NEW_TR_HS", train |-> t, arg |-> hs]
FULL_PATH(t, p) == [m |-> "FULL_PATH", train |-> t, arg |-> p]
COLLISION(t) == [m |-> "COLLISION", train |-> t]

(* Commands.  spi_controller reads them in order, hands them to the Atmel and *)
(* answers nothing: `told' is what the Atmel does once it has caught up, and  *)
(* these are what it does after one more, w being what it did before.         *)
TR_CTRL(w, t, state) == [w EXCEPT !.speed[t] = state]
switch_track(w, n, state) == IF n = 0 THEN w ELSE [w EXCEPT !.sw[n] = state]

-----------------------------------------------------------------------------
(* The train controllers.  ctl[t] holds cur_path, nxt_path and prv_path by    *)
(* their IDs, dst_indx, hs_indx, whether the controller is in the recv() of   *)
(* its collision loop, and the local's exp_cur and exp_nxt.                   *)

Cur(t) == paths[ctl[t].cur]

(* A turn of t's controller, up to its next recv(): its locals c, what it has *)
(* to send the conductor, and what the Atmel has been told at the end of it.  *)
Controls(t, c, sends, w) ==
    /\ ctl' = [ctl EXCEPT ![t] = c]
    /\ todo' = [todo EXCEPT ![t] = sends]
    /\ told' = w

Receives(t) ==
    /\ todo[t] = << >>
    /\ mail[t] # << >>
    /\ mail' = [mail EXCEPT ![t] = Tail(@)]
    /\ UNCHANGED <<con, atmel, pos, lag, gap>>

(* The paths move up by one leg. *)
Advance(t, c) == [c EXCEPT !.prv = c.cur, !.cur = c.nxt,
                           !.nxt = Leg(t, c.dst), !.dst = NextIndx(t, c.dst)]

(* The end of a path: next path, its speed, the switch back to straight.      *)
EndOfPath(t, c, w) ==
    switch_track(TR_CTRL(w, t, paths[c.cur].state), paths[c.prv].sw_num, "STRAIGHT")

(* The end of the loop: the next sensor, to the conductor. *)
Expect(t, c, h, sends, w) ==
    Controls(t, [c EXCEPT !.hs = h, !.waiting = FALSE],
             Append(sends, NEW_TR_HS(t, paths[c.cur].hs[h + 1])), w)

(* Mutant: hs_indx is reset to 0 and not to -1. *)
ExpressRestOffByOne(c, sends, w) ==
    IF c.hs = END_OF_PATH
    THEN LET d == Advance("express", c)
         IN  Expect("express", d, 1, sends, EndOfPath("express", d, w))
    ELSE Expect("express", c, c.hs + 1, sends, w)

(* What follows "start of path" in express_controller, which tests for the    *)
(* end of the path in the same turn.                                          *)
ExpressRest(c, sends, w) ==
    IF c.hs = END_OF_PATH
    THEN LET d == Advance("express", c)
         IN  Expect("express", d, 0, sends, EndOfPath("express", d, w))
    ELSE Expect("express", c, c.hs + 1, sends, w)

express_controller ==
    /\ Receives("express")
    /\ LET c   == ctl["express"]
           msg == Head(mail["express"])
           turned == switch_track(told, Cur("express").sw_num, "TURNED")
       IN \/ /\ c.waiting
             /\ msg.m # "FULL_PATH"
             /\ Controls("express", [c EXCEPT !.hs = @ + 1], << >>, told)
          \/ /\ c.waiting
             /\ msg.m = "FULL_PATH"
             /\ ExpressRest(c, <<FULL_PATH("express", c.nxt)>>,
                            TR_CTRL(told, "express", Cur("express").state))
          \/ /\ ~c.waiting
             /\ c.hs = START_OF_PATH
             /\ IF Cur("express").col_area \cap paths[msg.cur].col_area # {}
                THEN Controls("express", [c EXCEPT !.waiting = TRUE],
                              <<COLLISION("express")>>,
                              TR_CTRL(turned, "express", SPEED3))
                ELSE ExpressRest(c, <<FULL_PATH("express", c.nxt)>>, turned)
          \/ /\ ~c.waiting
             /\ c.hs # START_OF_PATH
             /\ ExpressRest(c, << >>, told)

LocalStops(c) ==
    Controls("local", [c EXCEPT !.waiting = TRUE], <<COLLISION("local")>>,
             TR_CTRL(TR_CTRL(told, "local", DIR_CCW + SPEED7), "local", BRAKE))

(* Mutants: exp_nxt is left out of the test; the switch is not turned. *)
LocalStartIgnoresNext(c) ==
    IF paths[c.cur].col_area \cap paths[c.exp_cur].col_area # {}
    THEN LocalStops(c)
    ELSE Expect("local", c, 1, <<FULL_PATH("local", c.nxt)>>,
                switch_track(TR_CTRL(told, "local", paths[c.cur].state),
                             paths[c.cur].sw_num, "TURNED"))
LocalStartStraight(c) ==
    IF paths[c.cur].col_area
            \cap (paths[c.exp_cur].col_area \cup paths[c.exp_nxt].col_area) # {}
    THEN LocalStops(c)
    ELSE Expect("local", c, 1, <<FULL_PATH("local", c.nxt)>>,
                TR_CTRL(told, "local", paths[c.cur].state))

(* One turn of "while collision is imminent", or the way on from it.          *)
LocalStart(c) ==
    IF paths[c.cur].col_area
            \cap (paths[c.exp_cur].col_area \cup paths[c.exp_nxt].col_area) # {}
    THEN LocalStops(c)
    ELSE Expect("local", c, 1, <<FULL_PATH("local", c.nxt)>>,
                switch_track(TR_CTRL(told, "local", paths[c.cur].state),
                             paths[c.cur].sw_num, "TURNED"))

(* Mutants: no dwell; hs_indx is reset to 0 and not to -1; the conductor does *)
(* not hear of the path after a dwell.                                        *)
LocalEndWithoutDwell(c) ==
    LET d == Advance("local", c)
    IN  Expect("local", d, 0, << >>, EndOfPath("local", d, told))
LocalEndOffByOne(c) ==
    LET d == Advance("local", c)
        e == Advance("local", d)
        w == EndOfPath("local", d, told)
    IN  IF d.cur # 0 THEN Expect("local", d, 1, << >>, w)
        ELSE Expect("local", e, 1, <<FULL_PATH("local", e.cur)>>,
                    TR_CTRL(w, "local", paths[e.cur].state))
LocalEndUnannounced(c) ==
    LET d == Advance("local", c)
        e == Advance("local", d)
        w == EndOfPath("local", d, told)
    IN  IF d.cur # 0 THEN Expect("local", d, 0, << >>, w)
        ELSE Expect("local", e, 0, << >>, TR_CTRL(w, "local", paths[e.cur].state))

LocalEnd(c) ==
    LET d == Advance("local", c)
        e == Advance("local", d)
        w == EndOfPath("local", d, told)
    IN  IF d.cur # 0 THEN Expect("local", d, 0, << >>, w)
        ELSE Expect("local", e, 0, <<FULL_PATH("local", e.cur)>>,
                    TR_CTRL(w, "local", paths[e.cur].state))

local_controller ==
    /\ Receives("local")
    /\ LET c   == ctl["local"]
           msg == Head(mail["local"])
           d   == [c EXCEPT !.exp_cur = msg.cur, !.exp_nxt = msg.nxt]
       IN \/ /\ c.waiting
             /\ LocalStart([c EXCEPT !.exp_cur = c.exp_nxt, !.exp_nxt = msg.arg])
          \/ /\ ~c.waiting
             /\ c.hs = START_OF_PATH
             /\ LocalStart(d)
          \/ /\ ~c.waiting
             /\ c.hs = END_OF_PATH
             /\ LocalEnd(d)
          \/ /\ ~c.waiting
             /\ c.hs = 1
             /\ Expect("local", d, 2, << >>, told)

-----------------------------------------------------------------------------
(* TheFatController *)

(* A message the conductor sends, or none: at most one for each it handles.   *)
NoReply == << >>
To(s, m) == <<[to |-> s, msg |-> m]>>

(* A triggered sensor goes to the train that is expected at it, the local     *)
(* first, with what that train needs to know of the other one.                *)
Report(msg) ==
    IF msg.arg = con.hs["local"]
    THEN To("local", [m |-> "TRIGGERED_HS", train |-> msg.train, arg |-> msg.arg,
                      cur |-> con.cur["express"], nxt |-> con.nxt["express"]])
    ELSE IF msg.arg = con.hs["express"]
    THEN To("express", [m |-> "TRIGGERED_HS", train |-> msg.train, arg |-> msg.arg,
                        cur |-> con.cur["local"]])
    ELSE NoReply

(* Mutant: blocked_train is not cleared. *)
PathAcquiredStaysBlocked(msg) ==
    LET t == msg.train
        u == Other(t)
        c == [con EXCEPT !.cur[t] = con.nxt[t], !.nxt[t] = msg.arg]
    IN  IF con.blocked = u THEN [c EXCEPT !.hs[u] = con.saved] ELSE c

(* A train has acquired a path: a train waiting for it is told. *)
PathAcquired(msg) ==
    LET t == msg.train
        u == Other(t)
        c == [con EXCEPT !.cur[t] = con.nxt[t], !.nxt[t] = msg.arg]
    IN  IF con.blocked = u
        THEN [c EXCEPT !.blocked = "NO_TRAIN", !.hs[u] = con.saved]
        ELSE c

(* Mutant: only the express is remembered as blocked. *)
AvoidedByExpress(t) ==
    [con EXCEPT !.blocked = IF t = "express" THEN t ELSE @, !.cur[t] = 0, !.hs[t] = 0,
                !.saved = IF t = "express" THEN con.hs[t] ELSE 0]

Avoided(t) ==
    [con EXCEPT !.blocked = t, !.cur[t] = 0, !.hs[t] = 0,
                !.saved = IF t = "express" THEN con.hs[t] ELSE 0]

(* The message is handled, and answered. *)
Reply(sends) ==
    mail' = [s \in Socket |->
                IF s = "conductor" THEN Tail(mail[s])
                ELSE IF sends # NoReply /\ sends[1].to = s
                THEN Append(mail[s], sends[1].msg) ELSE mail[s]]

TheFatController ==
    /\ mail["conductor"] # << >>
    /\ LET msg == Head(mail["conductor"]) IN
       \/ /\ msg.m = "TRIGGERED_HS"
          /\ Reply(Report(msg))
          /\ UNCHANGED con
       \/ /\ msg.m = "FULL_PATH"
          /\ con' = PathAcquired(msg)
          /\ Reply(IF con.blocked = Other(msg.train) THEN To(con.blocked, msg)
                   ELSE NoReply)
       \/ /\ msg.m = "NEW_TR_HS"
          /\ con' = [con EXCEPT !.hs[msg.train] = msg.arg]
          /\ Reply(NoReply)
       \/ /\ msg.m = "COLLISION"
          /\ con' = Avoided(msg.train)
          /\ Reply(NoReply)
    /\ UNCHANGED <<ctl, todo, told, atmel, pos, lag, gap>>

(* One WAKEUP of the GPIO interrupt: the sensor is read from the Atmel, sent  *)
(* to the conductor and acknowledged.                                         *)
hal_server ==
    /\ atmel # << >>
    /\ mail' = [mail EXCEPT !["conductor"] =
                   Append(@, [m |-> "TRIGGERED_HS", train |-> Head(atmel).train,
                              arg |-> Head(atmel).hs])]
    /\ atmel' = Tail(atmel)
    /\ UNCHANGED <<ctl, con, todo, told, pos, lag, gap>>

(* The next send() of a controller that is between two recv(). *)
send(t) ==
    /\ todo[t] # << >>
    /\ mail' = [mail EXCEPT !["conductor"] = Append(@, Head(todo[t]))]
    /\ todo' = [todo EXCEPT ![t] = Tail(@)]
    /\ UNCHANGED <<ctl, con, told, atmel, pos, lag, gap>>

-----------------------------------------------------------------------------
(* The track.  A train passes the sensors of its route in the order of the    *)
(* paths' tables.                                                             *)

On(t, x) == Leg(t, x.leg)
NextHs(t, x) == paths[On(t, x)].hs[x.passed + 1]

Onward(t, d) ==
    IF Leg(t, NextIndx(t, d)) # 0 THEN NextIndx(t, d)
    ELSE NextIndx(t, NextIndx(t, d))

Moved(t) == IF pos[t].passed < 2 THEN [pos[t] EXCEPT !.passed = @ + 1]
            ELSE [leg |-> Onward(t, pos[t].leg), passed |-> 0,
                  left |-> paths[On(t, pos[t])].col_area]

(* Nothing about the last sensor t passed is still under way. *)
About(t, s) == \E k \in 1 .. Len(s) : s[k].train = t

Handled(t) ==
    /\ todo[t] = << >>
    /\ mail[t] = << >>
    /\ ~About(t, mail["conductor"])
    /\ ~About(t, atmel)

(* The collision areas a train is in: it has passed the second sensor of a    *)
(* path, or the third and not yet the first of the next path.                 *)
InArea(t, x) ==
    CASE x.passed = 0 -> x.left
      [] x.passed = 1 -> {}
      [] x.passed = 2 -> paths[On(t, x)].col_area

(* Both trains on the way to the same sensor, or one with its tail still on   *)
(* the path it left the other one's by.  A sensor twice in a row in a path is *)
(* passed by the head and by the tail.                                        *)
SameSection(x, y) ==
    LET p == On("express", x)
        q == On("local", y)
    IN  \/ /\ NextHs("express", x) = NextHs("local", y)
           /\ x.passed = 0 \/ y.passed = 0 \/ p = q
        \/ /\ x.passed > 0 /\ y.passed > 0
           /\ paths[p].hs[1] = paths[q].hs[1]

(* Outside the collision areas, where the code does nothing about it, the     *)
(* trains keep a section apart.                                               *)
Apart(q) ==
    \/ ~SameSection(q["express"], q["local"])
    \/ InArea("express", q["express"]) \cap InArea("local", q["local"]) # {}

(* A train with power passes its next sensor, once the messages about its     *)
(* last one have been handled.                                                *)
CanPass(t) ==
    /\ Handled(t)
    /\ told.speed[t] # BRAKE
    /\ t = "express" /\ ExpressWaits => ~ctl[t].waiting
    /\ Apart([pos EXCEPT ![t] = Moved(t)])

MaxLag(t) == IF t = "express" THEN ExpressLag ELSE LocalLag

Pass(t) ==
    LET u == Other(t) IN
    /\ CanPass(t)
    /\ pos' = [pos EXCEPT ![t] = Moved(t)]
    /\ atmel' = Append(atmel, [train |-> t, hs |-> NextHs(t, pos[t])])
    /\ Handled(u) \/ lag[u] < MaxLag(u)
    /\ CanPass(u) => gap[t] < MaxGap
    /\ lag' = [lag EXCEPT ![t] = 0, ![u] = IF Handled(u) THEN 0 ELSE @ + 1]
    /\ gap' = [gap EXCEPT ![u] = 0, ![t] = IF CanPass(u) THEN @ + 1 ELSE @]
    /\ UNCHANGED <<ctl, con, todo, mail, told>>

-----------------------------------------------------------------------------
Init ==
    /\ ctl = [t \in Train |->
                IF t = "express"
                THEN [cur |-> 2, nxt |-> Leg(t, 0), prv |-> 0, dst |-> 1, hs |-> 0,
                      waiting |-> FALSE]
                ELSE [cur |-> Leg(t, 4), nxt |-> Leg(t, 5), prv |-> 0, dst |-> 6,
                      hs |-> 0, waiting |-> FALSE, exp_cur |-> 0, exp_nxt |-> 0]]
    /\ con = [blocked |-> "NO_TRAIN", saved |-> 0,
              cur |-> [express |-> 2, local |-> 3],
              nxt |-> [express |-> 3, local |-> 7],
              hs  |-> [express |-> 14, local |-> 8]]
    /\ todo = [t \in Train |-> << >>]
    /\ mail = [s \in Socket |-> << >>]
    /\ told = [speed |-> [t \in Train |-> paths[ctl[t].cur].state],
               sw    |-> [n \in 1 .. 6 |-> "STRAIGHT"]]
    /\ atmel = << >>
    /\ pos = [express |-> [leg |-> 3, passed |-> 0, left |-> {}],
              local |-> [leg |-> 4, passed |-> 0, left |-> {}]]
    /\ lag = [t \in Train |-> 0]
    /\ gap = [t \in Train |-> 0]

Next ==
    \/ express_controller
    \/ local_controller
    \/ TheFatController
    \/ hal_server
    \/ \E t \in Train : send(t) \/ Pass(t)

Spec == Init /\ [][Next]_vars

(* The processes and the trains do not all stop while one of them can go on.  *)
(* Within the bounds above that is enough for each to get its turn.           *)
FairSpec == Spec /\ WF_vars(Next)

-----------------------------------------------------------------------------
(* Properties *)

(* The locals stay in the ranges the tables are indexed with; no controller   *)
(* waits for a message with the dwell as its current path.                    *)
TypeOK ==
    /\ \A t \in Train : /\ ctl[t].cur \in 1 .. 12
                        /\ ctl[t].nxt \in 0 .. 12
                        /\ ctl[t].dst \in 0 .. Len(route[t]) - 1
                        /\ ctl[t].hs \in 0 .. 2
                        /\ ctl[t].waiting \in BOOLEAN
                        /\ con.cur[t] \in 0 .. 12
                        /\ con.nxt[t] \in 0 .. 12
                        /\ con.hs[t] \in 0 .. 24
    /\ con.blocked \in Train \cup {"NO_TRAIN"}

(* train_control.c:3: the controllers keep the trains from hitting each       *)
(* other: they are never in the same collision area.                          *)
NoCollision ==
    InArea("express", pos["express"]) \cap InArea("local", pos["local"]) = {}

(* The conductor has one blocked_train: a COLLISION never reaches it while    *)
(* it holds the other train blocked, which would then never be woken up.      *)
OneBlocked ==
    mail["conductor"] # << >> /\ Head(mail["conductor"]).m = "COLLISION"
        => con.blocked = "NO_TRAIN"

(* The conductor finds out which train triggered a sensor: a controller only  *)
(* ever hears of the sensors its own train passed.                            *)
Attributed ==
    \A t \in Train : \A k \in 1 .. Len(mail[t]) :
        mail[t][k].m = "TRIGGERED_HS" => mail[t][k].train = t

(* t's controller, when it has caught up, knows the path its train is on and  *)
(* the sensors it has passed, and the conductor expects the train at the next.*)
InStep(t) ==
    Handled(t) => /\ ctl[t].cur = On(t, pos[t])
                  /\ ~ctl[t].waiting => /\ ctl[t].hs = pos[t].passed
                                        /\ con.hs[t] = NextHs(t, pos[t])

Tracked == \A t \in Train : InStep(t)

(* The path a train starts on, the first time: later it has another before    *)
(* it, where now there is none (prv_path 0, which is also the dwell).         *)
OnFirstPath(t) ==
    ctl[t].prv = 0 /\ ctl[t].cur = (IF t = "express" THEN 2 ELSE 3)

(* Past the start of a path, the conductor has the train's current and next   *)
(* path right,                                                                *)
Knows(t) ==
    Handled(t) /\ ctl[t].hs # 0
        => con.cur[t] = ctl[t].cur /\ con.nxt[t] = ctl[t].nxt

(* on every path but its first, those after a dwell among them.               *)
KnowsLater == \A t \in Train : ~OnFirstPath(t) => Knows(t)

(* train_control.c:400: the conductor knows where both trains are, from the   *)
(* start.                                                                     *)
KnowsBoth == \A t \in Train : Knows(t)

(* A train that has entered a path through a switch finds the switch turned.  *)
SwitchesSet ==
    \A t \in Train :
        pos[t].passed = 2 /\ paths[On(t, pos[t])].sw_num # 0
            => told.sw[paths[On(t, pos[t])].sw_num] = "TURNED"

(* A train that stopped or slowed down for the other one goes on again.       *)
Resumes == \A t \in Train : ctl[t].waiting ~> ~ctl[t].waiting
=============================================================================
