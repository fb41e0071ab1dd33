---------------------------- MODULE SpinProofs ----------------------------
(* Proofs about Spin, for any number of CPUs and processes. *)
EXTENDS Spin, FiniteSetTheorems, TLAPS

\* CPUs, processes, the device's lock and Nil are different things.
Constants ==
  /\ CPU \cap Thread = {} /\ Dev \notin Thread
  /\ Nil \notin CPU \cup Lock

\* The frames that the actions make are frames.
LEMMA FrameOff ==
  ASSUME NEW f \in Context, NEW l \in Lock, NEW b \in BOOLEAN
  PROVE  [f EXCEPT !.pc = "off", !.want = l, !.old = b] \in Context
  BY Zenon DEF Context, Frame, SpinPCs

\* push_off() gone on to the swap leaves a context.
LEMMA FrameSpin ==
  ASSUME NEW f \in Context
  PROVE  [f EXCEPT !.pc = "spin", !.old = FALSE] \in Context
  BY Zenon DEF Context, Frame, SpinPCs

\* A lock got leaves a context.
LEMMA FrameGot ==
  ASSUME NEW f \in Context, f.want \in Lock
  PROVE  [f EXCEPT !.pc = "run", !.want = Nil, !.held = @ \cup {f.want}] \in Context
  BY Zenon DEF Context, Frame, SpinPCs

\* A change of the locks held leaves a context.
LEMMA FrameHeld ==
  ASSUME NEW f \in Context, NEW h \in SUBSET Lock
  PROVE  [f EXCEPT !.held = h] \in Context
  BY DEF Context, Frame

\* The contexts of a system call and of user space.
LEMMA FrameRun ==
  ASSUME NEW b \in BOOLEAN
  PROVE  Run(b) \in Context /\ [Run(b) EXCEPT !.pc = "user"] \in Context
  BY Zenon DEF Context, Frame, SpinPCs, Run, Outers

\* The context of a handler, with the interrupted one inside.
LEMMA FrameTrap ==
  ASSUME NEW f \in Context, f.outer = {}
  PROVE  [Run(FALSE) EXCEPT !.held = f.held, !.outer = {f}] \in Context
  <1>1. f \in Frame({{}})
    BY DEF Context, Frame
  <1>2. {f} \in Outers
    BY <1>1 DEF Outers
  <1> QED
    BY <1>2, Zenon DEF Context, Frame, SpinPCs, Run

\* What a handler returns to is a context.
LEMMA FrameBack ==
  ASSUME NEW f \in Context, NEW o \in f.outer
  PROVE  o \in Context /\ o.outer = {} /\ f.outer = {o}
  <1>1. f.outer \in Outers
    BY DEF Context, Frame
  <1>2. f.outer = {o} /\ o \in Frame({{}})
    BY <1>1 DEF Outers
  <1> QED
    BY <1>2 DEF Context, Frame, Outers

\* What an action does to the context of CPU c, and to no other.
Becomes(c, pcs, want, old, held, on, outer) ==
  /\ X(c)'.pc = pcs /\ X(c)'.want = want /\ X(c)'.old = old
  /\ X(c)'.held = held /\ X(c)'.on = on /\ X(c)'.outer = outer
  /\ at' = at /\ X(c) = ctx[at[c]] /\ X(c)' = ctx'[at[c]]
  /\ ctx' \in [Ctx -> Context]
  /\ \A x \in Ctx \ {at[c]} : ctx'[x] = ctx[x]
  /\ \A d \in CPU \ {c} : X(d)' = X(d)

\* What happens to the registers and to mycpu() of CPU c.
Sets(c, s, n, e) ==
  /\ sie'[c] = s /\ noff'[c] = n /\ intena'[c] = e
  /\ \A d \in CPU \ {c} : sie'[d] = sie[d] /\ noff'[d] = noff[d] /\ intena'[d] = intena[d]
  /\ sie' \in [CPU -> BOOLEAN] /\ intena' \in [CPU -> BOOLEAN]

\* What SetX(), the update of the running context, does.
LEMMA SetXIs ==
  ASSUME SpinTypeOK, AtInv, NEW c \in CPU, NEW r \in Context, SetX(c, r), at' = at
  PROVE  Becomes(c, r.pc, r.want, r.old, r.held, r.on, r.outer)
  <1>1. at[c] \in Ctx /\ ctx \in [Ctx -> Context]
    BY DEF SpinTypeOK
  <1>2. X(c)' = r
    BY <1>1 DEF SetX, X
  <1>3. ctx' \in [Ctx -> Context] /\ X(c)' = ctx'[at[c]]
    BY <1>1 DEF SetX, X
  <1>4. \A d \in CPU \ {c} : X(d)' = X(d)
    BY <1>1 DEF SetX, X, AtInv, SpinTypeOK
  <1> QED
    BY <1>1, <1>2, <1>3, <1>4 DEF Becomes, SetX, X

\* The running context of a CPU is a context.
LEMMA XType == ASSUME SpinTypeOK, NEW c \in CPU PROVE X(c) \in Context /\ X(c) = ctx[at[c]]
  BY DEF SpinTypeOK, X

\* What push_off() reading sstatus does to the contexts.
LEMMA AcquireReadIs ==
  ASSUME SpinTypeOK, AtInv, NEW c \in CPU, NEW l \in Lock, AcquireRead(c, l)
  PROVE  Becomes(c, "off", l, sie[c], X(c).held, X(c).on, X(c).outer)
  <1> DEFINE r == [X(c) EXCEPT !.pc = "off", !.want = l, !.old = sie[c]]
  <1>0. X(c) \in Context /\ SetX(c, r) /\ at' = at
    BY XType DEF AcquireRead
  <1>1. r \in Context
    BY <1>0, FrameOff, Zenon DEF SpinTypeOK
  <1>2. /\ r.pc = "off" /\ r.want = l /\ r.old = sie[c]
        /\ r.held = X(c).held /\ r.on = X(c).on /\ r.outer = X(c).outer
    BY <1>0 DEF Context, Frame, Run
  <1> HIDE DEF r
  <1>3. Becomes(c, r.pc, r.want, r.old, r.held, r.on, r.outer)
    BY <1>0, <1>1, SetXIs
  <1> QED
    BY <1>2, <1>3

\* What release() with its pop_off() does to the contexts.
LEMMA ReleaseIs ==
  ASSUME SpinTypeOK, AtInv, NEW c \in CPU, NEW l \in Lock, Release(c, l)
  PROVE  Becomes(c, X(c).pc, X(c).want, X(c).old, X(c).held \ {l}, X(c).on, X(c).outer)
  <1> DEFINE r == [X(c) EXCEPT !.held = @ \ {l}]
  <1>0. X(c) \in Context /\ SetX(c, r) /\ at' = at
    BY XType DEF Release
  <1>1. r \in Context
    BY <1>0, FrameHeld DEF Context, Frame
  <1>2. /\ r.pc = X(c).pc /\ r.want = X(c).want /\ r.old = X(c).old
        /\ r.held = X(c).held \ {l} /\ r.on = X(c).on /\ r.outer = X(c).outer
    BY <1>0 DEF Context, Frame, Run
  <1> HIDE DEF r
  <1>3. Becomes(c, r.pc, r.want, r.old, r.held, r.on, r.outer)
    BY <1>0, <1>1, SetXIs
  <1> QED
    BY <1>2, <1>3

\* What push_off() after intr_off() does to the contexts.
LEMMA AcquireOffIs ==
  ASSUME SpinTypeOK, AtInv, NEW c \in CPU, AcquireOff(c)
  PROVE  Becomes(c, "spin", X(c).want, FALSE, X(c).held, X(c).on, X(c).outer)
  <1> DEFINE r == [X(c) EXCEPT !.pc = "spin", !.old = FALSE]
  <1>0. X(c) \in Context /\ SetX(c, r) /\ at' = at
    BY XType DEF AcquireOff
  <1>1. r \in Context
    BY <1>0, FrameSpin, Zenon
  <1>2. /\ r.pc = "spin" /\ r.want = X(c).want /\ r.old = FALSE
        /\ r.held = X(c).held /\ r.on = X(c).on /\ r.outer = X(c).outer
    BY <1>0 DEF Context, Frame, Run
  <1> HIDE DEF r
  <1>3. Becomes(c, r.pc, r.want, r.old, r.held, r.on, r.outer)
    BY <1>0, <1>1, SetXIs
  <1> QED
    BY <1>2, <1>3, Zenon

\* What the successful swap of acquire() does to the contexts.
LEMMA AcquireSwapIs ==
  ASSUME SpinTypeOK, AtInv, NEW c \in CPU, X(c).want \in Lock, AcquireSwap(c)
  PROVE  Becomes(c, "run", Nil, X(c).old, X(c).held \cup {X(c).want}, X(c).on, X(c).outer)
  <1> DEFINE r == [X(c) EXCEPT !.pc = "run", !.want = Nil, !.held = @ \cup {X(c).want}]
  <1>0. X(c) \in Context /\ SetX(c, r) /\ at' = at
    BY XType, SMTT(20) DEF AcquireSwap
  <1>1. r \in Context
    BY <1>0, FrameGot, Zenon
  <1>2. /\ r.pc = "run" /\ r.want = Nil /\ r.old = X(c).old
        /\ r.held = X(c).held \cup {X(c).want} /\ r.on = X(c).on /\ r.outer = X(c).outer
    BY <1>0 DEF Context, Frame, Run
  <1> HIDE DEF r
  <1>3. Becomes(c, r.pc, r.want, r.old, r.held, r.on, r.outer)
    BY <1>0, <1>1, SetXIs
  <1> QED
    BY <1>2, <1>3

\* What entering kerneltrap() does to the contexts.
LEMMA InterruptIs ==
  ASSUME SpinTypeOK, AtInv, NEW c \in CPU, X(c).outer = {}, Interrupt(c)
  PROVE  Becomes(c, "run", Nil, FALSE, X(c).held, FALSE, {X(c)})
  <1> DEFINE r == [Run(FALSE) EXCEPT !.held = X(c).held, !.outer = {X(c)}]
  <1>0. X(c) \in Context /\ SetX(c, r) /\ at' = at
    BY XType DEF Interrupt
  <1>1. r \in Context
    BY <1>0, FrameTrap, Zenon
  <1>2. /\ r.pc = "run" /\ r.want = Nil /\ r.old = FALSE
        /\ r.held = X(c).held /\ r.on = FALSE /\ r.outer = {X(c)}
    BY <1>0 DEF Context, Frame, Run
  <1> HIDE DEF r
  <1>3. Becomes(c, r.pc, r.want, r.old, r.held, r.on, r.outer)
    BY <1>0, <1>1, SetXIs
  <1> QED
    BY <1>2, <1>3, Zenon

\* What usertrapret() does to the contexts.
LEMMA UserReturnIs ==
  ASSUME SpinTypeOK, AtInv, NEW c \in CPU, UserReturn(c)
  PROVE  Becomes(c, "user", Nil, FALSE, {}, FALSE, {})
  <1> DEFINE r == [Run(FALSE) EXCEPT !.pc = "user"]
  <1>0. X(c) \in Context /\ SetX(c, r) /\ at' = at
    BY XType DEF UserReturn
  <1>1. r \in Context
    BY <1>0, FrameRun, Zenon
  <1>2. /\ r.pc = "user" /\ r.want = Nil /\ r.old = FALSE
        /\ r.held = {} /\ r.on = FALSE /\ r.outer = {}
    BY <1>0 DEF Context, Frame, Run
  <1> HIDE DEF r
  <1>3. Becomes(c, r.pc, r.want, r.old, r.held, r.on, r.outer)
    BY <1>0, <1>1, SetXIs
  <1> QED
    BY <1>2, <1>3, Zenon

\* What entering usertrap() does to the contexts.
LEMMA UserTrapIs ==
  ASSUME SpinTypeOK, AtInv, NEW c \in CPU, UserTrap(c)
  PROVE  \E b \in BOOLEAN : /\ Becomes(c, "run", Nil, FALSE, {}, b, {})
                            /\ sie' = [sie EXCEPT ![c] = b]
  <1>1. PICK b \in BOOLEAN : SetX(c, Run(b)) /\ sie' = [sie EXCEPT ![c] = b]
    BY Zenon DEF UserTrap
  <1>2. at' = at /\ Run(b) \in Context
    BY FrameRun, Zenon DEF UserTrap
  <1> DEFINE r == Run(b)
  <1>3. r.pc = "run" /\ r.want = Nil /\ r.old = FALSE /\ r.held = {} /\ r.on = b /\ r.outer = {}
    BY DEF Run
  <1> HIDE DEF r
  <1>4. Becomes(c, r.pc, r.want, r.old, r.held, r.on, r.outer)
    BY <1>1, <1>2, SetXIs DEF r
  <1> QED
    BY <1>1, <1>3, <1>4, Zenon

\* What returning from kerneltrap() does to the contexts.
LEMMA TrapReturnIs ==
  ASSUME SpinTypeOK, AtInv, NEW c \in CPU, TrapReturn(c)
  PROVE  \E o \in X(c).outer :
           Becomes(c, o.pc, o.want, o.old, o.held, o.on, {}) /\ X(c).outer = {o}
  <1> DEFINE o == CHOOSE f \in X(c).outer : TRUE
  <1>1. X(c) \in Context /\ SetX(c, o) /\ at' = at /\ o \in X(c).outer
    BY XType DEF TrapReturn
  <1> HIDE DEF o
  <1>2. o \in Context /\ o.outer = {} /\ X(c).outer = {o}
    BY <1>1, FrameBack
  <1>3. Becomes(c, o.pc, o.want, o.old, o.held, o.on, o.outer)
    BY <1>1, <1>2, SetXIs
  <1> QED
    BY <1>1, <1>2, <1>3

\* CPU c switches from x to y, which goes on holding the lock of t.
SameButHeld(z) ==
  /\ ctx'[z].pc = ctx[z].pc /\ ctx'[z].want = ctx[z].want /\ ctx'[z].old = ctx[z].old
  /\ ctx'[z].on = ctx[z].on /\ ctx'[z].outer = ctx[z].outer

Moves(c, x, y, t) ==
  /\ x = at[c] /\ x # y /\ x \in Ctx /\ y \in Ctx
  /\ at' = [at EXCEPT ![c] = y] /\ X(c) = ctx[x] /\ X(c)' = ctx'[y]
  /\ ctx'[x].held = {} /\ ctx'[y].held = {t} /\ \A z \in {x, y} : SameButHeld(z)
  /\ ctx' \in [Ctx -> Context]
  /\ \A z \in Ctx \ {x, y} : ctx'[z] = ctx[z]
  /\ \A d \in CPU \ {c} : X(d)' = X(d)

\* What sched() does to the contexts.
LEMMA SchedIs ==
  ASSUME Constants, SpinTypeOK, AtInv, NEW c \in CPU, Sched(c)
  PROVE  Moves(c, at[c], c, at[c])
  <1> DEFINE x == at[c]
             y == c
             h == {at[c]}
  <1>1. /\ x = at[c] /\ x # y /\ x \in Ctx /\ y \in Ctx /\ h \in SUBSET Lock
        /\ ctx \in [Ctx -> Context]
    BY DEF Sched, SpinTypeOK, AtInv, Ctx, Lock, Constants
  <1>2. at' = [at EXCEPT ![c] = y] /\ ctx' = [ctx EXCEPT ![x].held = {}, ![y].held = h]
    BY <1>1 DEF Sched
  <1>3. \A d \in CPU \ {c} : at[d] # x /\ at[d] # y /\ at[d] \in Ctx
    BY <1>1 DEF Sched, SpinTypeOK, AtInv, Constants
  <1> HIDE DEF x, y, h
  <1>4. ctx'[x] = [ctx[x] EXCEPT !.held = {}] /\ ctx'[y] = [ctx[y] EXCEPT !.held = h]
    BY <1>1, <1>2, Zenon
  <1>5. ctx'[x] \in Context /\ ctx'[y] \in Context
    <2>1. ctx[x] \in Context /\ ctx[y] \in Context /\ {} \in SUBSET Lock
      BY <1>1
    <2>2. [ctx[x] EXCEPT !.held = {}] \in Context
      BY <2>1, FrameHeld
    <2>3. [ctx[y] EXCEPT !.held = h] \in Context
      BY <1>1, <2>1, FrameHeld
    <2> QED
      BY <1>4, <2>2, <2>3
  <1>6. \A z \in Ctx \ {x, y} : ctx'[z] = ctx[z]
    BY <1>1, <1>2
  <1>7. ctx' \in [Ctx -> Context]
    BY <1>1, <1>2, <1>5, <1>6, Zenon
  <1>8. /\ ctx'[x].held = {} /\ ctx'[y].held = h
        /\ \A z \in {x, y} : SameButHeld(z)
    BY <1>1, <1>4 DEF Context, Frame, SameButHeld
  <1>9. X(c)' = ctx'[y] /\ X(c) = ctx[x]
    BY <1>1, <1>2 DEF X, SpinTypeOK
  <1>10. \A d \in CPU \ {c} : X(d)' = X(d)
    BY <1>2, <1>3, <1>6 DEF X, SpinTypeOK
  <1> QED
    BY <1>1, <1>2, <1>6, <1>7, <1>8, <1>9, <1>10, Zenon DEF Moves, x, y, h

\* What swtch() to a process in scheduler() does to the contexts.
LEMMA SwitchIs ==
  ASSUME Constants, SpinTypeOK, AtInv, NEW c \in CPU, NEW t \in Thread, Switch(c, t)
  PROVE  Moves(c, c, t, t)
  <1> DEFINE x == c
             y == t
             h == {t}
  <1>1. /\ x = at[c] /\ x # y /\ x \in Ctx /\ y \in Ctx /\ h \in SUBSET Lock
        /\ ctx \in [Ctx -> Context]
    BY DEF Switch, SpinTypeOK, AtInv, Ctx, Lock, Constants
  <1>2. at' = [at EXCEPT ![c] = y] /\ ctx' = [ctx EXCEPT ![x].held = {}, ![y].held = h]
    BY <1>1 DEF Switch
  <1>3. \A d \in CPU \ {c} : at[d] # x /\ at[d] # y /\ at[d] \in Ctx
    BY <1>1 DEF Switch, SpinTypeOK, AtInv, Constants
  <1> HIDE DEF x, y, h
  <1>4. ctx'[x] = [ctx[x] EXCEPT !.held = {}] /\ ctx'[y] = [ctx[y] EXCEPT !.held = h]
    BY <1>1, <1>2, Zenon
  <1>5. ctx'[x] \in Context /\ ctx'[y] \in Context
    <2>1. ctx[x] \in Context /\ ctx[y] \in Context /\ {} \in SUBSET Lock
      BY <1>1
    <2>2. [ctx[x] EXCEPT !.held = {}] \in Context
      BY <2>1, FrameHeld
    <2>3. [ctx[y] EXCEPT !.held = h] \in Context
      BY <1>1, <2>1, FrameHeld
    <2> QED
      BY <1>4, <2>2, <2>3
  <1>6. \A z \in Ctx \ {x, y} : ctx'[z] = ctx[z]
    BY <1>1, <1>2
  <1>7. ctx' \in [Ctx -> Context]
    BY <1>1, <1>2, <1>5, <1>6, Zenon
  <1>8. /\ ctx'[x].held = {} /\ ctx'[y].held = h
        /\ \A z \in {x, y} : SameButHeld(z)
    BY <1>1, <1>4 DEF Context, Frame, SameButHeld
  <1>9. X(c)' = ctx'[y] /\ X(c) = ctx[x]
    BY <1>1, <1>2 DEF X, SpinTypeOK
  <1>10. \A d \in CPU \ {c} : X(d)' = X(d)
    BY <1>2, <1>3, <1>6 DEF X, SpinTypeOK
  <1> QED
    BY <1>1, <1>2, <1>6, <1>7, <1>8, <1>9, <1>10, Zenon DEF Moves, x, y, h


\* A BOOLEAN register of one CPU is set.
LEMMA SetBool ==
  ASSUME NEW f \in [CPU -> BOOLEAN], NEW c \in CPU, NEW b \in BOOLEAN
  PROVE  /\ [f EXCEPT ![c] = b] \in [CPU -> BOOLEAN] /\ [f EXCEPT ![c] = b][c] = b
         /\ \A d \in CPU \ {c} : [f EXCEPT ![c] = b][d] = f[d]
  OBVIOUS

\* What push_off() reading sstatus does to the interrupt state.
LEMMA AcquireReadSets ==
  ASSUME SpinTypeOK, NEW c \in CPU, NEW l \in Lock, AcquireRead(c, l)
  PROVE  Sets(c, sie[c], noff[c], intena[c])
  <1>1. /\ sie \in [CPU -> BOOLEAN] /\ intena \in [CPU -> BOOLEAN] /\ noff \in [CPU -> Nat]
        /\ X(c) \in Context
    BY XType DEF SpinTypeOK
  <1> DEFINE s == sie[c]
             e == intena[c]
  <1>2. s \in BOOLEAN /\ e \in BOOLEAN
    BY <1>1 DEF SpinTypeOK, Context, Frame, NewIntena, IntenaOf
  <1>3. /\ sie' = [sie EXCEPT ![c] = s] /\ intena' = [intena EXCEPT ![c] = e]
        /\ noff' = [noff EXCEPT ![c] = noff[c]]
    BY <1>1 DEF AcquireRead
  <1> HIDE DEF s, e
  <1>4. /\ sie' \in [CPU -> BOOLEAN] /\ sie'[c] = s
        /\ \A d \in CPU \ {c} : sie'[d] = sie[d]
    BY <1>1, <1>2, <1>3, SetBool
  <1>5. /\ intena' \in [CPU -> BOOLEAN] /\ intena'[c] = e
        /\ \A d \in CPU \ {c} : intena'[d] = intena[d]
    BY <1>1, <1>2, <1>3, SetBool
  <1>6. noff'[c] = noff[c] /\ \A d \in CPU \ {c} : noff'[d] = noff[d]
    BY <1>1, <1>3
  <1> QED
    BY <1>4, <1>5, <1>6 DEF Sets, s, e

\* What release() with its pop_off() does to the interrupt state.
LEMMA ReleaseSets ==
  ASSUME SpinTypeOK, NEW c \in CPU, NEW l \in Lock, Release(c, l)
  PROVE  Sets(c, (sie[c] \/ PopOn(c)), noff[c] - 1, (intena[c] /\ noff[c] > 1))
  <1>1. /\ sie \in [CPU -> BOOLEAN] /\ intena \in [CPU -> BOOLEAN] /\ noff \in [CPU -> Nat]
        /\ X(c) \in Context
    BY XType DEF SpinTypeOK
  <1> DEFINE s == (sie[c] \/ PopOn(c))
             e == (intena[c] /\ noff[c] > 1)
  <1>2. s \in BOOLEAN /\ e \in BOOLEAN
    BY <1>1 DEF SpinTypeOK, Context, Frame, NewIntena, IntenaOf
  <1>3. /\ sie' = [sie EXCEPT ![c] = s] /\ intena' = [intena EXCEPT ![c] = e]
        /\ noff' = [noff EXCEPT ![c] = noff[c] - 1]
    BY <1>1 DEF Release
  <1> HIDE DEF s, e
  <1>4. /\ sie' \in [CPU -> BOOLEAN] /\ sie'[c] = s
        /\ \A d \in CPU \ {c} : sie'[d] = sie[d]
    BY <1>1, <1>2, <1>3, SetBool
  <1>5. /\ intena' \in [CPU -> BOOLEAN] /\ intena'[c] = e
        /\ \A d \in CPU \ {c} : intena'[d] = intena[d]
    BY <1>1, <1>2, <1>3, SetBool
  <1>6. noff'[c] = noff[c] - 1 /\ \A d \in CPU \ {c} : noff'[d] = noff[d]
    BY <1>1, <1>3
  <1> QED
    BY <1>4, <1>5, <1>6 DEF Sets, s, e

\* What push_off() after intr_off() does to the interrupt state.
LEMMA AcquireOffSets ==
  ASSUME SpinTypeOK, NEW c \in CPU, AcquireOff(c)
  PROVE  Sets(c, FALSE, noff[c] + 1, NewIntena(c))
  <1>1. /\ sie \in [CPU -> BOOLEAN] /\ intena \in [CPU -> BOOLEAN] /\ noff \in [CPU -> Nat]
        /\ X(c) \in Context
    BY XType DEF SpinTypeOK
  <1> DEFINE s == FALSE
             e == NewIntena(c)
  <1>2. s \in BOOLEAN /\ e \in BOOLEAN
    BY <1>1 DEF SpinTypeOK, Context, Frame, NewIntena, IntenaOf
  <1>3. /\ sie' = [sie EXCEPT ![c] = s] /\ intena' = [intena EXCEPT ![c] = e]
        /\ noff' = [noff EXCEPT ![c] = noff[c] + 1]
    BY <1>1 DEF AcquireOff
  <1> HIDE DEF s, e
  <1>4. /\ sie' \in [CPU -> BOOLEAN] /\ sie'[c] = s
        /\ \A d \in CPU \ {c} : sie'[d] = sie[d]
    BY <1>1, <1>2, <1>3, SetBool
  <1>5. /\ intena' \in [CPU -> BOOLEAN] /\ intena'[c] = e
        /\ \A d \in CPU \ {c} : intena'[d] = intena[d]
    BY <1>1, <1>2, <1>3, SetBool
  <1>6. noff'[c] = noff[c] + 1 /\ \A d \in CPU \ {c} : noff'[d] = noff[d]
    BY <1>1, <1>3
  <1> QED
    BY <1>4, <1>5, <1>6 DEF Sets, s, e

\* What the successful swap of acquire() does to the interrupt state.
LEMMA AcquireSwapSets ==
  ASSUME SpinTypeOK, NEW c \in CPU, AcquireSwap(c)
  PROVE  Sets(c, sie[c], noff[c], intena[c])
  <1>1. /\ sie \in [CPU -> BOOLEAN] /\ intena \in [CPU -> BOOLEAN] /\ noff \in [CPU -> Nat]
        /\ X(c) \in Context
    BY XType DEF SpinTypeOK
  <1> DEFINE s == sie[c]
             e == intena[c]
  <1>2. s \in BOOLEAN /\ e \in BOOLEAN
    BY <1>1 DEF SpinTypeOK, Context, Frame, NewIntena, IntenaOf
  <1>3. /\ sie' = [sie EXCEPT ![c] = s] /\ intena' = [intena EXCEPT ![c] = e]
        /\ noff' = [noff EXCEPT ![c] = noff[c]]
    BY <1>1 DEF AcquireSwap
  <1> HIDE DEF s, e
  <1>4. /\ sie' \in [CPU -> BOOLEAN] /\ sie'[c] = s
        /\ \A d \in CPU \ {c} : sie'[d] = sie[d]
    BY <1>1, <1>2, <1>3, SetBool
  <1>5. /\ intena' \in [CPU -> BOOLEAN] /\ intena'[c] = e
        /\ \A d \in CPU \ {c} : intena'[d] = intena[d]
    BY <1>1, <1>2, <1>3, SetBool
  <1>6. noff'[c] = noff[c] /\ \A d \in CPU \ {c} : noff'[d] = noff[d]
    BY <1>1, <1>3
  <1> QED
    BY <1>4, <1>5, <1>6 DEF Sets, s, e

\* What entering kerneltrap() does to the interrupt state.
LEMMA InterruptSets ==
  ASSUME SpinTypeOK, NEW c \in CPU, Interrupt(c)
  PROVE  Sets(c, FALSE, noff[c], intena[c])
  <1>1. /\ sie \in [CPU -> BOOLEAN] /\ intena \in [CPU -> BOOLEAN] /\ noff \in [CPU -> Nat]
        /\ X(c) \in Context
    BY XType DEF SpinTypeOK
  <1> DEFINE s == FALSE
             e == intena[c]
  <1>2. s \in BOOLEAN /\ e \in BOOLEAN
    BY <1>1 DEF SpinTypeOK, Context, Frame, NewIntena, IntenaOf
  <1>3. /\ sie' = [sie EXCEPT ![c] = s] /\ intena' = [intena EXCEPT ![c] = e]
        /\ noff' = [noff EXCEPT ![c] = noff[c]]
    BY <1>1 DEF Interrupt
  <1> HIDE DEF s, e
  <1>4. /\ sie' \in [CPU -> BOOLEAN] /\ sie'[c] = s
        /\ \A d \in CPU \ {c} : sie'[d] = sie[d]
    BY <1>1, <1>2, <1>3, SetBool
  <1>5. /\ intena' \in [CPU -> BOOLEAN] /\ intena'[c] = e
        /\ \A d \in CPU \ {c} : intena'[d] = intena[d]
    BY <1>1, <1>2, <1>3, SetBool
  <1>6. noff'[c] = noff[c] /\ \A d \in CPU \ {c} : noff'[d] = noff[d]
    BY <1>1, <1>3
  <1> QED
    BY <1>4, <1>5, <1>6 DEF Sets, s, e

\* What returning from kerneltrap() does to the interrupt state.
LEMMA TrapReturnSets ==
  ASSUME SpinTypeOK, NEW c \in CPU, TrapReturn(c)
  PROVE  Sets(c, TRUE, noff[c], intena[c])
  <1>1. /\ sie \in [CPU -> BOOLEAN] /\ intena \in [CPU -> BOOLEAN] /\ noff \in [CPU -> Nat]
        /\ X(c) \in Context
    BY XType DEF SpinTypeOK
  <1> DEFINE s == TRUE
             e == intena[c]
  <1>2. s \in BOOLEAN /\ e \in BOOLEAN
    BY <1>1 DEF SpinTypeOK, Context, Frame, NewIntena, IntenaOf
  <1>3. /\ sie' = [sie EXCEPT ![c] = s] /\ intena' = [intena EXCEPT ![c] = e]
        /\ noff' = [noff EXCEPT ![c] = noff[c]]
    BY <1>1 DEF TrapReturn
  <1> HIDE DEF s, e
  <1>4. /\ sie' \in [CPU -> BOOLEAN] /\ sie'[c] = s
        /\ \A d \in CPU \ {c} : sie'[d] = sie[d]
    BY <1>1, <1>2, <1>3, SetBool
  <1>5. /\ intena' \in [CPU -> BOOLEAN] /\ intena'[c] = e
        /\ \A d \in CPU \ {c} : intena'[d] = intena[d]
    BY <1>1, <1>2, <1>3, SetBool
  <1>6. noff'[c] = noff[c] /\ \A d \in CPU \ {c} : noff'[d] = noff[d]
    BY <1>1, <1>3
  <1> QED
    BY <1>4, <1>5, <1>6 DEF Sets, s, e

\* What usertrapret() does to the interrupt state.
LEMMA UserReturnSets ==
  ASSUME SpinTypeOK, NEW c \in CPU, UserReturn(c)
  PROVE  Sets(c, FALSE, noff[c], intena[c])
  <1>1. /\ sie \in [CPU -> BOOLEAN] /\ intena \in [CPU -> BOOLEAN] /\ noff \in [CPU -> Nat]
        /\ X(c) \in Context
    BY XType DEF SpinTypeOK
  <1> DEFINE s == FALSE
             e == intena[c]
  <1>2. s \in BOOLEAN /\ e \in BOOLEAN
    BY <1>1 DEF SpinTypeOK, Context, Frame, NewIntena, IntenaOf
  <1>3. /\ sie' = [sie EXCEPT ![c] = s] /\ intena' = [intena EXCEPT ![c] = e]
        /\ noff' = [noff EXCEPT ![c] = noff[c]]
    BY <1>1 DEF UserReturn
  <1> HIDE DEF s, e
  <1>4. /\ sie' \in [CPU -> BOOLEAN] /\ sie'[c] = s
        /\ \A d \in CPU \ {c} : sie'[d] = sie[d]
    BY <1>1, <1>2, <1>3, SetBool
  <1>5. /\ intena' \in [CPU -> BOOLEAN] /\ intena'[c] = e
        /\ \A d \in CPU \ {c} : intena'[d] = intena[d]
    BY <1>1, <1>2, <1>3, SetBool
  <1>6. noff'[c] = noff[c] /\ \A d \in CPU \ {c} : noff'[d] = noff[d]
    BY <1>1, <1>3
  <1> QED
    BY <1>4, <1>5, <1>6 DEF Sets, s, e

\* What sched() does to the interrupt state.
LEMMA SchedSets ==
  ASSUME SpinTypeOK, NEW c \in CPU, Sched(c)
  PROVE  Sets(c, sie[c], noff[c], intena[c])
  <1>1. /\ sie \in [CPU -> BOOLEAN] /\ intena \in [CPU -> BOOLEAN] /\ noff \in [CPU -> Nat]
        /\ X(c) \in Context
    BY XType DEF SpinTypeOK
  <1> DEFINE s == sie[c]
             e == intena[c]
  <1>2. s \in BOOLEAN /\ e \in BOOLEAN
    BY <1>1 DEF SpinTypeOK, Context, Frame, NewIntena, IntenaOf
  <1>3. /\ sie' = [sie EXCEPT ![c] = s] /\ intena' = [intena EXCEPT ![c] = e]
        /\ noff' = [noff EXCEPT ![c] = noff[c]]
    BY <1>1 DEF Sched
  <1> HIDE DEF s, e
  <1>4. /\ sie' \in [CPU -> BOOLEAN] /\ sie'[c] = s
        /\ \A d \in CPU \ {c} : sie'[d] = sie[d]
    BY <1>1, <1>2, <1>3, SetBool
  <1>5. /\ intena' \in [CPU -> BOOLEAN] /\ intena'[c] = e
        /\ \A d \in CPU \ {c} : intena'[d] = intena[d]
    BY <1>1, <1>2, <1>3, SetBool
  <1>6. noff'[c] = noff[c] /\ \A d \in CPU \ {c} : noff'[d] = noff[d]
    BY <1>1, <1>3
  <1> QED
    BY <1>4, <1>5, <1>6 DEF Sets, s, e

\* What intr_on() in scheduler() does to the interrupt state.
LEMMA IntrOnSets ==
  ASSUME SpinTypeOK, NEW c \in CPU, IntrOn(c)
  PROVE  Sets(c, TRUE, noff[c], intena[c])
  <1>1. /\ sie \in [CPU -> BOOLEAN] /\ intena \in [CPU -> BOOLEAN] /\ noff \in [CPU -> Nat]
        /\ X(c) \in Context
    BY XType DEF SpinTypeOK
  <1> DEFINE s == TRUE
             e == intena[c]
  <1>2. s \in BOOLEAN /\ e \in BOOLEAN
    BY <1>1 DEF SpinTypeOK, Context, Frame, NewIntena, IntenaOf
  <1>3. /\ sie' = [sie EXCEPT ![c] = s] /\ intena' = [intena EXCEPT ![c] = e]
        /\ noff' = [noff EXCEPT ![c] = noff[c]]
    BY <1>1 DEF IntrOn
  <1> HIDE DEF s, e
  <1>4. /\ sie' \in [CPU -> BOOLEAN] /\ sie'[c] = s
        /\ \A d \in CPU \ {c} : sie'[d] = sie[d]
    BY <1>1, <1>2, <1>3, SetBool
  <1>5. /\ intena' \in [CPU -> BOOLEAN] /\ intena'[c] = e
        /\ \A d \in CPU \ {c} : intena'[d] = intena[d]
    BY <1>1, <1>2, <1>3, SetBool
  <1>6. noff'[c] = noff[c] /\ \A d \in CPU \ {c} : noff'[d] = noff[d]
    BY <1>1, <1>3
  <1> QED
    BY <1>4, <1>5, <1>6 DEF Sets, s, e

\* What swtch() to a process in scheduler() does to the interrupt state.
LEMMA SwitchSets ==
  ASSUME SpinTypeOK, NEW c \in CPU, NEW t \in Thread, Switch(c, t)
  PROVE  Sets(c, sie[c], noff[c], IntenaOf(c, t))
  <1>1. /\ sie \in [CPU -> BOOLEAN] /\ intena \in [CPU -> BOOLEAN] /\ noff \in [CPU -> Nat]
        /\ X(c) \in Context
    BY XType DEF SpinTypeOK
  <1> DEFINE s == sie[c]
             e == IntenaOf(c, t)
  <1>2. s \in BOOLEAN /\ e \in BOOLEAN
    BY <1>1 DEF SpinTypeOK, Context, Frame, NewIntena, IntenaOf
  <1>3. /\ sie' = [sie EXCEPT ![c] = s] /\ intena' = [intena EXCEPT ![c] = e]
        /\ noff' = [noff EXCEPT ![c] = noff[c]]
    BY <1>1 DEF Switch
  <1> HIDE DEF s, e
  <1>4. /\ sie' \in [CPU -> BOOLEAN] /\ sie'[c] = s
        /\ \A d \in CPU \ {c} : sie'[d] = sie[d]
    BY <1>1, <1>2, <1>3, SetBool
  <1>5. /\ intena' \in [CPU -> BOOLEAN] /\ intena'[c] = e
        /\ \A d \in CPU \ {c} : intena'[d] = intena[d]
    BY <1>1, <1>2, <1>3, SetBool
  <1>6. noff'[c] = noff[c] /\ \A d \in CPU \ {c} : noff'[d] = noff[d]
    BY <1>1, <1>3
  <1> QED
    BY <1>4, <1>5, <1>6 DEF Sets, s, e

\* What entering usertrap() does to the interrupt state.
LEMMA UserTrapSets ==
  ASSUME SpinTypeOK, NEW c \in CPU, NEW b \in BOOLEAN, UserTrap(c), sie' = [sie EXCEPT ![c] = b]
  PROVE  Sets(c, b, noff[c], intena[c])
  BY SetBool DEF Sets, SpinTypeOK, UserTrap

\* What intr_on() in scheduler() does to the contexts.
LEMMA IntrOnIs ==
  ASSUME SpinTypeOK, AtInv, NEW c \in CPU, IntrOn(c)
  PROVE  Becomes(c, X(c).pc, X(c).want, X(c).old, X(c).held, X(c).on, X(c).outer)
  BY XType DEF IntrOn, Becomes, X, SpinTypeOK

\* Counting the locks that a context holds.
LEMMA Counting ==
  ASSUME NEW c \in CPU, HeldAt(c)
  PROVE  /\ Cardinality(X(c).held) \in Nat /\ Cardinality({}) = 0
         /\ Cardinality(X(c).held) = 0 <=> X(c).held = {}
         /\ \A l : Cardinality({l}) = 1 /\ IsFiniteSet({l})
         /\ \A l \in X(c).held : /\ IsFiniteSet(X(c).held \ {l})
                                 /\ Cardinality(X(c).held \ {l}) = Cardinality(X(c).held) - 1
         /\ \A l : l \notin X(c).held =>
              /\ IsFiniteSet(X(c).held \cup {l})
              /\ Cardinality(X(c).held \cup {l}) = Cardinality(X(c).held) + 1
  <1> DEFINE h == X(c).held
  <1>1. IsFiniteSet(h)
    BY DEF HeldAt
  <1> HIDE DEF h
  <1>2. Cardinality(h) \in Nat /\ Cardinality({}) = 0 /\ (Cardinality(h) = 0 <=> h = {})
    BY <1>1, FS_CardinalityType, FS_EmptySet
  <1>3. \A l : Cardinality({l}) = 1 /\ IsFiniteSet({l})
    BY FS_Singleton, Zenon
  <1>4. \A l \in h : IsFiniteSet(h \ {l}) /\ Cardinality(h \ {l}) = Cardinality(h) - 1
    BY <1>1, FS_RemoveElement
  <1>5. \A l : l \notin h => IsFiniteSet(h \cup {l}) /\ Cardinality(h \cup {l}) = Cardinality(h) + 1
    BY <1>1, FS_AddElement
  <1> QED
    BY <1>2, <1>3, <1>4, <1>5, Zenon DEF h

\* A lock less, and a lock alone.
LEMMA OneLess ==
  ASSUME NEW c \in CPU, HeldAt(c), NEW l \in X(c).held
  PROVE  /\ Cardinality(X(c).held) \in Nat \ {0}
         /\ IsFiniteSet(X(c).held \ {l})
         /\ Cardinality(X(c).held \ {l}) = Cardinality(X(c).held) - 1
  <1> DEFINE h == X(c).held
  <1>1. IsFiniteSet(h) /\ l \in h
    BY DEF HeldAt
  <1> HIDE DEF h
  <1>2. Cardinality(h) \in Nat /\ (Cardinality(h) = 0 <=> h = {})
    BY <1>1, FS_CardinalityType, FS_EmptySet
  <1>3. IsFiniteSet(h \ {l}) /\ Cardinality(h \ {l}) = Cardinality(h) - 1
    BY <1>1, FS_RemoveElement
  <1> QED
    BY <1>1, <1>2, <1>3 DEF h

\* mycpu()->noff is 1 with one lock held outside acquire().
LEMMA OneLock ==
  ASSUME NEW c \in CPU, NoffAt(c), NEW l, X(c).held = {l}, X(c).pc # "spin"
  PROVE  noff[c] = 1 /\ Cardinality({l}) = 1 /\ IsFiniteSet({l})
  <1>1. Cardinality({l}) = 1 /\ IsFiniteSet({l})
    BY FS_Singleton, Zenon
  <1> QED
    BY <1>1 DEF NoffAt

\* noff is 0 where no lock is held.
LEMMA NoffZero ==
  ASSUME SpinInv, NEW c \in CPU
  PROVE  noff[c] = 0 <=> X(c).held = {} /\ X(c).pc # "spin"
  <1>1. HeldAt(c) /\ NoffAt(c)
    BY DEF SpinInv, CpuInv
  <1> QED
    BY <1>1, Counting DEF NoffAt

\* Where interrupts are on no lock is held, and no handler runs.
LEMMA NotNested ==
  ASSUME SpinInv, NEW c \in CPU, sie[c]
  PROVE  X(c).held = {} /\ X(c).outer = {} /\ X(c).pc # "spin" /\ X(c).pc # "user"
  <1>0. SpinTypeOK /\ HeldAt(c) /\ OffAt(c) /\ OnAt(c) /\ OuterInv
    BY DEF SpinInv, CpuInv
  <1>1. X(c) = ctx[at[c]] /\ at[c] \in Ctx /\ sie[c] = TRUE
    BY <1>0, XType DEF SpinTypeOK
  <1>2. X(c).held = {} /\ X(c).pc # "spin" /\ X(c).pc # "user"
    BY <1>0 DEF OffAt
  <1>3. noff[c] = 0
    BY <1>2, NoffZero
  <1>4. X(c).outer = {}
    BY <1>0, <1>1, <1>2, <1>3, Zenon DEF OnAt, Tracked, OuterInv, OuterOf
  <1> QED
    BY <1>2, <1>4

\* A step of c keeps the invariant of c, touches no other CPU, keeps the types
\* and does not panic.
CpuStep(c) ==
  /\ HeldAt(c)' /\ NoffAt(c)' /\ OffAt(c)' /\ OnAt(c)'
  /\ \A d \in CPU \ {c} : /\ X(d)' = X(d) /\ at'[d] = at[d]
                          /\ sie'[d] = sie[d] /\ noff'[d] = noff[d] /\ intena'[d] = intena[d]
                          /\ \A l \in Lock : owner'[l] = d <=> owner[l] = d
  /\ sie' \in [CPU -> BOOLEAN] /\ intena' \in [CPU -> BOOLEAN] /\ noff' \in [CPU -> Nat]
  /\ ctx' \in [Ctx -> Context]
  /\ saved' \in [Thread -> BOOLEAN] /\ owner' \in [Lock -> CPU \cup {Nil}]
  /\ ~panicked'

\* Locks, noff and interrupts stay in step: push_off() reading sstatus.
LEMMA AcquireReadCpu ==
  ASSUME Constants, SpinInv, NEW c \in CPU, NEW l \in Lock, AcquireRead(c, l)
  PROVE  CpuStep(c)
  <1>0. /\ SpinTypeOK /\ AtInv /\ HeldAt(c) /\ NoffAt(c) /\ OffAt(c) /\ OnAt(c)
        /\ CpuInv /\ OuterInv /\ SavedInv /\ ~panicked /\ X(c) \in Context /\ X(c) = ctx[at[c]] /\ OuterOf(at[c])
    BY XType DEF SpinInv, CpuInv, OuterInv, SpinTypeOK, NoLockPanic
  <1>1. Becomes(c, "off", l, sie[c], X(c).held, X(c).on, X(c).outer)
    BY <1>0, AcquireReadIs
  <1>2. Sets(c, sie[c], noff[c], intena[c])
    BY <1>0, AcquireReadSets
  <1>3. HeldAt(c)'
    BY <1>0, <1>1, <1>2, Counting, SMTT(30) DEF Becomes, AcquireRead, MayTake,
        HeldAt, SpinTypeOK, Constants, Lock
  <1>4. NoffAt(c)'
    BY <1>0, <1>1, <1>2, Counting, SMTT(30) DEF Becomes, Sets, AcquireRead,
        MayTake, NoffAt, HeldAt
  <1>5. OffAt(c)'
    BY <1>0, <1>1, <1>2, Counting, ZenonT(20) DEF Becomes, Sets, AcquireRead,
        MayTake, OffAt, NoffAt, HeldAt, OnAt, Tracked, OuterOf, SpinTypeOK,
        Context, Frame
  <1>6. OnAt(c)'
    BY <1>0, <1>1, <1>2, NoffZero DEF Becomes, Sets, AcquireRead, MayTake,
        OnAt, Tracked, OffAt, NoffAt, OuterOf, SavedInv, Away, SpinTypeOK, Context,
        Frame
  <1>7. \A d \in CPU \ {c}, l1 \in Lock : owner'[l1] = d <=> owner[l1] = d
    BY <1>0 DEF AcquireRead, MayTake, HeldAt, SpinTypeOK, Constants
  <1>8. /\ noff' \in [CPU -> Nat] /\ saved' \in [Thread -> BOOLEAN]
        /\ owner' \in [Lock -> CPU \cup {Nil}]
    BY <1>0, Counting DEF AcquireRead, MayTake, NoffAt, HeldAt, SpinTypeOK
  <1>9. ~panicked'
    BY <1>0 DEF AcquireRead, MayTake, Panic
  <1> QED
    BY <1>1, <1>2, <1>3, <1>4, <1>5, <1>6, <1>7, <1>8, <1>9 DEF CpuStep, Becomes, Sets

\* Locks, noff and interrupts stay in step: release() with its pop_off().
LEMMA ReleaseCpu ==
  ASSUME Constants, SpinInv, NEW c \in CPU, NEW l \in Lock, Release(c, l)
  PROVE  CpuStep(c)
  <1>0. /\ SpinTypeOK /\ AtInv /\ HeldAt(c) /\ NoffAt(c) /\ OffAt(c) /\ OnAt(c)
        /\ CpuInv /\ OuterInv /\ SavedInv /\ ~panicked /\ X(c) \in Context /\ X(c) = ctx[at[c]] /\ OuterOf(at[c])
    BY XType DEF SpinInv, CpuInv, OuterInv, SpinTypeOK, NoLockPanic
  <1>z. /\ l \in X(c).held /\ X(c).pc \in {"run", "fork"} /\ sie[c] = FALSE /\ owner[l] = c
        /\ Cardinality(X(c).held) \in Nat \ {0} /\ noff[c] = Cardinality(X(c).held)
        /\ IsFiniteSet(X(c).held \ {l})
        /\ Cardinality(X(c).held \ {l}) = Cardinality(X(c).held) - 1
        /\ X(c).held \ {l} = {} <=> noff[c] = 1
    <2>1. l \in X(c).held /\ X(c).pc \in {"run", "fork"} /\ owner[l] = c
      BY <1>0 DEF Release, HeldAt
    <2>2. sie[c] = FALSE
      BY <1>0, <2>1 DEF OffAt, SpinTypeOK
    <2>3. /\ Cardinality(X(c).held) \in Nat \ {0} /\ noff[c] = Cardinality(X(c).held)
          /\ IsFiniteSet(X(c).held \ {l})
          /\ Cardinality(X(c).held \ {l}) = Cardinality(X(c).held) - 1
      <3>1. /\ Cardinality(X(c).held) \in Nat \ {0} /\ IsFiniteSet(X(c).held \ {l})
            /\ Cardinality(X(c).held \ {l}) = Cardinality(X(c).held) - 1
        BY <1>0, <2>1, OneLess, Zenon
      <3>2. noff[c] = Cardinality(X(c).held)
        BY <1>0, <2>1, <3>1 DEF NoffAt
      <3> QED
        BY <3>1, <3>2, Zenon
    <2>4. X(c).held \ {l} = {} <=> noff[c] = 1
      BY <2>3, FS_EmptySet
    <2> QED
      BY <2>1, <2>2, <2>3, <2>4
  <1>1. Becomes(c, X(c).pc, X(c).want, X(c).old, X(c).held \ {l}, X(c).on, X(c).outer)
    BY <1>0, <1>z, ReleaseIs, ZenonT(40)
  <1>2. Sets(c, (sie[c] \/ PopOn(c)), noff[c] - 1, (intena[c] /\ noff[c] > 1))
    BY <1>0, ReleaseSets, ZenonT(20)
  <1>3. HeldAt(c)'
    BY <1>0, <1>z, <1>1, <1>2 DEF Becomes, Release, PopOn, HeldAt, SpinTypeOK,
        Constants, Lock
  <1>4. NoffAt(c)'
    <2>1. X(c)'.held = X(c).held \ {l} /\ X(c)'.pc # "spin"
      BY <1>z, <1>1 DEF Becomes
    <2>2. noff'[c] = noff[c] - 1
      BY <1>2, ZenonT(20) DEF Sets
    <2> QED
      BY <1>z, <2>1, <2>2, SMTT(30) DEF NoffAt
  <1>5. OffAt(c)'
    BY <1>0, <1>z, <1>1, <1>2, ZenonT(20) DEF Becomes, Sets, Release, PopOn,
        OffAt, NoffAt, HeldAt, OnAt, Tracked, OuterOf, SpinTypeOK, Context, Frame
  <1>6. OnAt(c)'
    BY <1>0, <1>z, <1>1, <1>2, NoffZero, SMTT(30) DEF Becomes, Sets, Release,
        PopOn, OnAt, Tracked, OffAt, NoffAt, OuterOf, SavedInv, Away, SpinTypeOK,
        Context, Frame
  <1>7. \A d \in CPU \ {c}, l1 \in Lock : owner'[l1] = d <=> owner[l1] = d
    BY <1>0, <1>z DEF Release, PopOn, HeldAt, SpinTypeOK, Constants
  <1>8. /\ noff' \in [CPU -> Nat] /\ saved' \in [Thread -> BOOLEAN]
        /\ owner' \in [Lock -> CPU \cup {Nil}]
    BY <1>0, <1>z DEF Release, PopOn, NoffAt, HeldAt, SpinTypeOK
  <1>9. ~panicked'
    <2>1. ~(owner[l] # c \/ sie[c] \/ noff[c] < 1)
      BY <1>z
    <2> QED
      BY <1>0, <2>1, Zenon DEF Release, Panic
  <1> QED
    BY <1>1, <1>2, <1>3, <1>4, <1>5, <1>6, <1>7, <1>8, <1>9, SMTT(30)
    DEF CpuStep, Becomes, Sets

\* Locks, noff and interrupts stay in step: push_off() after intr_off().
LEMMA AcquireOffCpu ==
  ASSUME Constants, SpinInv, NEW c \in CPU, AcquireOff(c)
  PROVE  CpuStep(c)
  <1>0. /\ SpinTypeOK /\ AtInv /\ HeldAt(c) /\ NoffAt(c) /\ OffAt(c) /\ OnAt(c)
        /\ CpuInv /\ OuterInv /\ SavedInv /\ ~panicked /\ X(c) \in Context /\ X(c) = ctx[at[c]] /\ OuterOf(at[c])
    BY XType, ZenonT(20) DEF SpinInv, CpuInv, OuterInv, SpinTypeOK, NoLockPanic
  <1>z. /\ X(c).pc = "off" /\ X(c).old = sie[c] /\ X(c).want \in Lock \ X(c).held
        /\ owner[X(c).want] # c
        /\ NewIntena(c) = (IF noff[c] = 0 THEN sie[c] ELSE intena[c])
        /\ noff[c] = Cardinality(X(c).held) /\ noff[c] \in Nat
    <2>1. X(c).pc = "off" /\ X(c).old = sie[c] /\ X(c).want \in Lock \ X(c).held
      BY <1>0, ZenonT(20) DEF AcquireOff, OffAt, HeldAt
    <2>2. owner[X(c).want] # c
      BY <1>0, <2>1 DEF HeldAt
    <2>3. noff[c] = Cardinality(X(c).held) + 0 /\ noff[c] \in Nat
      BY <1>0, <2>1 DEF NoffAt, SpinTypeOK
    <2>4. noff[c] = Cardinality(X(c).held)
      BY <1>0, <2>3, Counting
    <2> QED
      BY <2>1, <2>2, <2>3, <2>4 DEF NewIntena
  <1>1. Becomes(c, "spin", X(c).want, FALSE, X(c).held, X(c).on, X(c).outer)
    BY <1>0, <1>z, AcquireOffIs, Zenon
  <1>2. Sets(c, FALSE, noff[c] + 1, NewIntena(c))
    BY <1>0, AcquireOffSets, Zenon
  <1>3. HeldAt(c)'
    BY <1>0, <1>z, <1>1, <1>2, ZenonT(20) DEF Becomes, AcquireOff, HeldAt,
        SpinTypeOK, Constants, Lock
  <1>4. NoffAt(c)'
    BY <1>0, <1>z, <1>1, <1>2, ZenonT(20) DEF Becomes, Sets, AcquireOff, NoffAt, HeldAt
  <1>5. OffAt(c)'
    BY <1>0, <1>z, <1>1, <1>2, SMTT(30) DEF Becomes, Sets, AcquireOff, OffAt,
        NoffAt, HeldAt, OnAt, Tracked, OuterOf, SpinTypeOK, Context, Frame
  <1>6. OnAt(c)'
    <2>1. noff'[c] # 0 /\ intena'[c] = (IF noff[c] = 0 THEN sie[c] ELSE intena[c])
      BY <1>z, <1>2 DEF Sets
    <2>2. Tracked(c)' => Tracked(c)
      BY <1>z, <1>1 DEF Becomes, Tracked
    <2>3. X(c)'.on = X(c).on
      BY <1>1 DEF Becomes
    <2> QED
      BY <1>0, <2>1, <2>2, <2>3 DEF OnAt
  <1>7. \A d \in CPU \ {c}, l1 \in Lock : owner'[l1] = d <=> owner[l1] = d
    BY <1>0, <1>z DEF AcquireOff, HeldAt, SpinTypeOK, Constants
  <1>8. /\ noff' \in [CPU -> Nat] /\ saved' \in [Thread -> BOOLEAN]
        /\ owner' \in [Lock -> CPU \cup {Nil}]
    BY <1>0, <1>z DEF AcquireOff, NoffAt, HeldAt, SpinTypeOK
  <1>9. ~panicked'
    BY <1>0, <1>z, Zenon DEF AcquireOff, Panic
  <1> QED
    BY <1>1, <1>2, <1>3, <1>4, <1>5, <1>6, <1>7, <1>8, <1>9 DEF CpuStep, Becomes, Sets

\* Locks, noff and interrupts stay in step: the successful swap of acquire().
LEMMA AcquireSwapCpu ==
  ASSUME Constants, SpinInv, NEW c \in CPU, AcquireSwap(c)
  PROVE  CpuStep(c)
  <1>0. /\ SpinTypeOK /\ AtInv /\ HeldAt(c) /\ NoffAt(c) /\ OffAt(c) /\ OnAt(c)
        /\ CpuInv /\ OuterInv /\ SavedInv /\ ~panicked /\ X(c) \in Context /\ X(c) = ctx[at[c]] /\ OuterOf(at[c])
    BY XType DEF SpinInv, CpuInv, OuterInv, SpinTypeOK, NoLockPanic
  <1>z. /\ X(c).want \in Lock \ X(c).held /\ X(c).pc = "spin" /\ owner[X(c).want] = Nil
        /\ Cardinality(X(c).held) \in Nat /\ noff[c] = Cardinality(X(c).held) + 1
        /\ IsFiniteSet(X(c).held \cup {X(c).want})
        /\ Cardinality(X(c).held \cup {X(c).want}) = Cardinality(X(c).held) + 1
    <2>1. X(c).want \in Lock \ X(c).held /\ X(c).pc = "spin" /\ owner[X(c).want] = Nil
      BY <1>0 DEF AcquireSwap, HeldAt
    <2> QED
      BY <1>0, <2>1, Counting, Zenon DEF NoffAt
  <1>1. Becomes(c, "run", Nil, X(c).old, X(c).held \cup {X(c).want}, X(c).on, X(c).outer)
    BY <1>0, <1>z, AcquireSwapIs, ZenonT(40)
  <1>2. Sets(c, sie[c], noff[c], intena[c])
    BY <1>0, AcquireSwapSets, ZenonT(20)
  <1>3. HeldAt(c)'
    BY <1>0, <1>z, <1>1, <1>2, ZenonT(20) DEF Becomes, AcquireSwap, HeldAt,
        SpinTypeOK, Constants, Lock
  <1>4. NoffAt(c)'
    BY <1>0, <1>z, <1>1, <1>2, SMTT(20) DEF Becomes, Sets, AcquireSwap, NoffAt, HeldAt
  <1>5. OffAt(c)'
    BY <1>0, <1>z, <1>1, <1>2, ZenonT(20) DEF Becomes, Sets, AcquireSwap, OffAt,
        NoffAt, HeldAt, OnAt, Tracked, OuterOf, SpinTypeOK, Context, Frame
  <1>6. OnAt(c)'
    BY <1>0, <1>z, <1>1, <1>2, NoffZero, SMTT(30) DEF Becomes, Sets,
        AcquireSwap, OnAt, Tracked, OffAt, NoffAt, OuterOf, SavedInv, Away,
        SpinTypeOK, Context, Frame
  <1>7. \A d \in CPU \ {c}, l1 \in Lock : owner'[l1] = d <=> owner[l1] = d
    BY <1>0, <1>z DEF AcquireSwap, HeldAt, SpinTypeOK, Constants
  <1>8. /\ noff' \in [CPU -> Nat] /\ saved' \in [Thread -> BOOLEAN]
        /\ owner' \in [Lock -> CPU \cup {Nil}]
    BY <1>0, <1>z DEF AcquireSwap, NoffAt, HeldAt, SpinTypeOK
  <1>9. ~panicked'
    BY <1>0, <1>z, ZenonT(20) DEF AcquireSwap, Panic
  <1> QED
    BY <1>1, <1>2, <1>3, <1>4, <1>5, <1>6, <1>7, <1>8, <1>9 DEF CpuStep, Becomes, Sets

\* Locks, noff and interrupts stay in step: entering kerneltrap().
LEMMA InterruptCpu ==
  ASSUME Constants, SpinInv, NEW c \in CPU, Interrupt(c)
  PROVE  CpuStep(c)
  <1>0. /\ SpinTypeOK /\ AtInv /\ HeldAt(c) /\ NoffAt(c) /\ OffAt(c) /\ OnAt(c)
        /\ CpuInv /\ OuterInv /\ SavedInv /\ ~panicked /\ X(c) \in Context /\ X(c) = ctx[at[c]] /\ OuterOf(at[c])
    BY XType DEF SpinInv, CpuInv, OuterInv, SpinTypeOK, NoLockPanic
  <1>z. X(c).outer = {} /\ X(c).held = {} /\ X(c).pc # "spin"
    BY <1>0, NotNested DEF Interrupt
  <1>1. Becomes(c, "run", Nil, FALSE, X(c).held, FALSE, {X(c)})
    BY <1>0, <1>z, InterruptIs, Zenon
  <1>2. Sets(c, FALSE, noff[c], intena[c])
    BY <1>0, InterruptSets, Zenon
  <1>3. HeldAt(c)'
    BY <1>0, <1>z, <1>1, <1>2 DEF Becomes, Interrupt, HeldAt, SpinTypeOK, Constants, Lock
  <1>4. NoffAt(c)'
    BY <1>0, <1>z, <1>1, <1>2 DEF Becomes, Sets, Interrupt, NoffAt, HeldAt
  <1>5. OffAt(c)'
    BY <1>0, <1>z, <1>1, <1>2 DEF Becomes, Sets, Interrupt, OffAt, NoffAt,
        HeldAt, OnAt, Tracked, OuterOf, SpinTypeOK, Context, Frame
  <1>6. OnAt(c)'
    BY <1>0, <1>z, <1>1, <1>2, NoffZero, ZenonT(40) DEF Becomes, Sets,
        Interrupt, OnAt, Tracked, OffAt, NoffAt, OuterOf, SavedInv, Away,
        SpinTypeOK, Context, Frame
  <1>7. \A d \in CPU \ {c}, l1 \in Lock : owner'[l1] = d <=> owner[l1] = d
    BY <1>0, <1>z DEF Interrupt, HeldAt, SpinTypeOK, Constants
  <1>8. /\ noff' \in [CPU -> Nat] /\ saved' \in [Thread -> BOOLEAN]
        /\ owner' \in [Lock -> CPU \cup {Nil}]
    BY <1>0, <1>z DEF Interrupt, NoffAt, HeldAt, SpinTypeOK
  <1>9. ~panicked'
    BY <1>0, <1>z, Zenon DEF Interrupt, Panic
  <1> QED
    BY <1>1, <1>2, <1>3, <1>4, <1>5, <1>6, <1>7, <1>8, <1>9 DEF CpuStep, Becomes, Sets

\* Locks, noff and interrupts stay in step: returning from kerneltrap().
LEMMA TrapReturnCpu ==
  ASSUME Constants, SpinInv, NEW c \in CPU, TrapReturn(c)
  PROVE  CpuStep(c)
  <1>0. /\ SpinTypeOK /\ AtInv /\ HeldAt(c) /\ NoffAt(c) /\ OffAt(c) /\ OnAt(c)
        /\ CpuInv /\ OuterInv /\ SavedInv /\ ~panicked /\ X(c) \in Context /\ X(c) = ctx[at[c]] /\ OuterOf(at[c])
    BY XType DEF SpinInv, CpuInv, OuterInv, SpinTypeOK, NoLockPanic
  <1>p. PICK o \in X(c).outer :
          Becomes(c, o.pc, o.want, o.old, o.held, o.on, {}) /\ X(c).outer = {o}
    BY <1>0, TrapReturnIs
  <1>1. Becomes(c, o.pc, o.want, o.old, o.held, o.on, {})
    BY <1>p
  <1>2. Sets(c, TRUE, noff[c], intena[c])
    BY <1>0, TrapReturnSets, ZenonT(40)
  <1>z. /\ o.held = {} /\ o.pc \in {"run", "off", "fork"}
        /\ o.pc = "off" => o.old = TRUE /\ o.want \in Lock
        /\ at[c] \in Thread /\ o.pc # "fork" => o.on = TRUE
    <2>1. o \in Context
      BY <1>0, <1>p, FrameBack, ZenonT(20)
    <2> QED
      BY <1>0, <1>p, <2>1 DEF OuterOf, Context, Frame
  <1>3. HeldAt(c)'
    BY <1>0, <1>z, <1>1, <1>2, ZenonT(20) DEF Becomes, TrapReturn, HeldAt,
        SpinTypeOK, Constants, Lock
  <1>4. NoffAt(c)'
    BY <1>0, <1>z, <1>1, <1>2, SMTT(20) DEF Becomes, Sets, TrapReturn, NoffAt, HeldAt
  <1>5. OffAt(c)'
    BY <1>0, <1>z, <1>1, <1>2, Zenon DEF Becomes, Sets, TrapReturn, OffAt,
        NoffAt, HeldAt, OnAt, Tracked, OuterOf, SpinTypeOK, Context, Frame
  <1>6. OnAt(c)'
    BY <1>0, <1>z, <1>1, <1>2, NoffZero, ZenonT(40) DEF Becomes, Sets,
        TrapReturn, OnAt, Tracked, OffAt, NoffAt, OuterOf, SavedInv, Away,
        SpinTypeOK, Context, Frame
  <1>7. \A d \in CPU \ {c}, l1 \in Lock : owner'[l1] = d <=> owner[l1] = d
    BY <1>0, <1>z, ZenonT(20) DEF TrapReturn, HeldAt, SpinTypeOK, Constants
  <1>8. /\ noff' \in [CPU -> Nat] /\ saved' \in [Thread -> BOOLEAN]
        /\ owner' \in [Lock -> CPU \cup {Nil}]
    BY <1>0, <1>z, ZenonT(20) DEF TrapReturn, NoffAt, HeldAt, SpinTypeOK
  <1>9. ~panicked'
    BY <1>0, <1>z, ZenonT(20) DEF TrapReturn, Panic
  <1> QED
    BY <1>1, <1>2, <1>3, <1>4, <1>5, <1>6, <1>7, <1>8, <1>9, SMTT(20)
    DEF CpuStep, Becomes, Sets

\* Locks, noff and interrupts stay in step: usertrapret().
LEMMA UserReturnCpu ==
  ASSUME Constants, SpinInv, NEW c \in CPU, UserReturn(c)
  PROVE  CpuStep(c)
  <1>0. /\ SpinTypeOK /\ AtInv /\ HeldAt(c) /\ NoffAt(c) /\ OffAt(c) /\ OnAt(c)
        /\ CpuInv /\ OuterInv /\ SavedInv /\ ~panicked /\ X(c) \in Context /\ X(c) = ctx[at[c]] /\ OuterOf(at[c])
    BY XType DEF SpinInv, CpuInv, OuterInv, SpinTypeOK, NoLockPanic
  <1>1. Becomes(c, "user", Nil, FALSE, {}, FALSE, {})
    BY <1>0, UserReturnIs, Zenon
  <1>2. Sets(c, FALSE, noff[c], intena[c])
    BY <1>0, UserReturnSets, Zenon
  <1>3. HeldAt(c)'
    BY <1>0, <1>1, <1>2, Counting DEF Becomes, UserReturn, HeldAt, SpinTypeOK,
        Constants, Lock
  <1>4. NoffAt(c)'
    BY <1>0, <1>1, <1>2, Counting DEF Becomes, Sets, UserReturn, NoffAt, HeldAt
  <1>5. OffAt(c)'
    BY <1>0, <1>1, <1>2, Counting, SMTT(30) DEF Becomes, Sets, UserReturn,
        OffAt, NoffAt, HeldAt, OnAt, Tracked, OuterOf, SpinTypeOK, Context, Frame
  <1>6. OnAt(c)'
    BY <1>0, <1>1, <1>2, NoffZero DEF Becomes, Sets, UserReturn, OnAt, Tracked,
        OffAt, NoffAt, OuterOf, SavedInv, Away, SpinTypeOK, Context, Frame
  <1>7. \A d \in CPU \ {c}, l1 \in Lock : owner'[l1] = d <=> owner[l1] = d
    BY <1>0 DEF UserReturn, HeldAt, SpinTypeOK, Constants
  <1>8. /\ noff' \in [CPU -> Nat] /\ saved' \in [Thread -> BOOLEAN]
        /\ owner' \in [Lock -> CPU \cup {Nil}]
    BY <1>0, Counting DEF UserReturn, NoffAt, HeldAt, SpinTypeOK
  <1>9. ~panicked'
    BY <1>0, ZenonT(20) DEF UserReturn, Panic
  <1> QED
    BY <1>1, <1>2, <1>3, <1>4, <1>5, <1>6, <1>7, <1>8, <1>9 DEF CpuStep, Becomes, Sets

\* Locks, noff and interrupts stay in step: entering usertrap().
LEMMA UserTrapCpu ==
  ASSUME Constants, SpinInv, NEW c \in CPU, UserTrap(c)
  PROVE  CpuStep(c)
  <1>0. /\ SpinTypeOK /\ AtInv /\ HeldAt(c) /\ NoffAt(c) /\ OffAt(c) /\ OnAt(c)
        /\ CpuInv /\ OuterInv /\ SavedInv /\ ~panicked /\ X(c) \in Context /\ X(c) = ctx[at[c]] /\ OuterOf(at[c])
    BY XType DEF SpinInv, CpuInv, OuterInv, SpinTypeOK, NoLockPanic
  <1>z. X(c).pc = "user" /\ X(c).held = {} /\ noff[c] = 0 /\ IsFiniteSet({}) /\ Cardinality({}) = 0
    BY <1>0, NoffZero, FS_EmptySet DEF UserTrap, OuterOf
  <1>p. PICK b \in BOOLEAN : /\ Becomes(c, "run", Nil, FALSE, {}, b, {})
                              /\ sie' = [sie EXCEPT ![c] = b]
    BY <1>0, UserTrapIs, Zenon
  <1>1. Becomes(c, "run", Nil, FALSE, {}, b, {})
    BY <1>p, Zenon
  <1>2. Sets(c, b, noff[c], intena[c])
    BY <1>0, <1>p, UserTrapSets, ZenonT(40)
  <1>3. HeldAt(c)'
    BY <1>0, <1>z, <1>1, <1>2, ZenonT(20) DEF Becomes, UserTrap, HeldAt, SpinTypeOK,
        Constants, Lock
  <1>4. NoffAt(c)'
    BY <1>0, <1>z, <1>1, <1>2, ZenonT(20) DEF Becomes, Sets, UserTrap, NoffAt, HeldAt
  <1>5. OffAt(c)'
    BY <1>0, <1>z, <1>1, <1>2, ZenonT(20) DEF Becomes, Sets, UserTrap, OffAt,
        NoffAt, HeldAt, OnAt, Tracked, OuterOf, SpinTypeOK, Context, Frame
  <1>6. OnAt(c)'
    BY <1>0, <1>z, <1>1, <1>2, NoffZero, SMTT(20) DEF Becomes, Sets, UserTrap,
        OnAt, Tracked, OffAt, NoffAt, OuterOf, SavedInv, Away, SpinTypeOK, Context,
        Frame
  <1>7. \A d \in CPU \ {c}, l1 \in Lock : owner'[l1] = d <=> owner[l1] = d
    BY <1>0, <1>z, ZenonT(40) DEF UserTrap, HeldAt, SpinTypeOK, Constants
  <1>8. /\ noff' \in [CPU -> Nat] /\ saved' \in [Thread -> BOOLEAN]
        /\ owner' \in [Lock -> CPU \cup {Nil}]
    BY <1>0, <1>z, SMTT(20) DEF UserTrap, NoffAt, HeldAt, SpinTypeOK
  <1>9. ~panicked'
    BY <1>0, <1>z, ZenonT(20) DEF UserTrap, Panic
  <1> QED
    BY <1>1, <1>2, <1>3, <1>4, <1>5, <1>6, <1>7, <1>8, <1>9, ZenonT(20)
    DEF CpuStep, Becomes, Sets

\* Locks, noff and interrupts stay in step: sched().
LEMMA SchedCpu ==
  ASSUME Constants, SpinInv, NEW c \in CPU, Sched(c)
  PROVE  CpuStep(c)
  <1>0. /\ SpinTypeOK /\ AtInv /\ HeldAt(c) /\ NoffAt(c) /\ OffAt(c) /\ OnAt(c)
        /\ CpuInv /\ OuterInv /\ SavedInv /\ ~panicked /\ X(c) \in Context /\ X(c) = ctx[at[c]] /\ OuterOf(at[c])
    BY XType DEF SpinInv, CpuInv, OuterInv, SpinTypeOK, NoLockPanic
  <1>z. /\ at[c] \in Thread /\ X(c).held = {at[c]} /\ X(c).pc = "run" /\ sie[c] = FALSE
        /\ owner[at[c]] = c /\ noff[c] = 1 /\ Cardinality({at[c]}) = 1 /\ IsFiniteSet({at[c]})
        /\ ctx[c].outer = {} /\ ctx[c].pc \in {"run", "fork"} /\ c \notin Thread /\ at[c] \in Lock
    <2>1. at[c] \in Thread /\ X(c).held = {at[c]} /\ X(c).pc = "run" /\ at[c] \in Lock
      BY ZenonT(20) DEF Sched, Lock
    <2>2. sie[c] = FALSE /\ owner[at[c]] = c
      BY <1>0, <2>1, SMTT(30) DEF OffAt, HeldAt, SpinTypeOK
    <2>3. noff[c] = 1 /\ Cardinality({at[c]}) = 1 /\ IsFiniteSet({at[c]})
      BY <1>0, <2>1, OneLock
    <2>4. Away(c) /\ c \in Ctx /\ c \notin Thread
      BY <1>0, <2>1 DEF Away, AtInv, Constants, Ctx
    <2>5. ctx[c].outer = {} /\ ctx[c].pc \in {"run", "fork"}
      BY <1>0, <2>4, SMTT(30) DEF AtInv
    <2> QED
      BY <2>1, <2>2, <2>3, <2>4, <2>5
  <1>1. Moves(c, at[c], c, at[c])
    BY <1>0, <1>z, SchedIs, ZenonT(20)
  <1>2. Sets(c, sie[c], noff[c], intena[c])
    BY <1>0, SchedSets
  <1>3. HeldAt(c)'
    BY <1>0, <1>z, <1>1, <1>2 DEF Moves, SameButHeld, Sched, HeldAt, SpinTypeOK,
        Constants, Lock
  <1>4. NoffAt(c)'
    <2>1. X(c)'.held = {at[c]} /\ X(c)'.pc # "spin" /\ noff'[c] = noff[c]
      BY <1>z, <1>1, <1>2, ZenonT(20) DEF Moves, SameButHeld, Sets
    <2>2. Cardinality(X(c)'.held) = 1 /\ noff'[c] = 1
      BY <1>z, <2>1, ZenonT(20)
    <2> QED
      BY <2>1, <2>2, SMTT(20) DEF NoffAt
  <1>5. OffAt(c)'
    BY <1>0, <1>z, <1>1, <1>2, ZenonT(20) DEF Moves, SameButHeld, Sets, Sched,
        OffAt, NoffAt, HeldAt, OnAt, Tracked, OuterOf, SpinTypeOK, Context, Frame
  <1>6. OnAt(c)'
    BY <1>0, <1>z, <1>1, <1>2, NoffZero DEF Moves, SameButHeld, Sets, Sched,
        OnAt, Tracked, OffAt, NoffAt, OuterOf, SavedInv, Away, SpinTypeOK, Context,
        Frame
  <1>7. \A d \in CPU \ {c}, l1 \in Lock : owner'[l1] = d <=> owner[l1] = d
    BY <1>0, <1>z DEF Sched, HeldAt, SpinTypeOK, Constants
  <1>8. /\ noff' \in [CPU -> Nat] /\ saved' \in [Thread -> BOOLEAN]
        /\ owner' \in [Lock -> CPU \cup {Nil}]
    BY <1>0, <1>z DEF Sched, NoffAt, HeldAt, SpinTypeOK
  <1>9. ~panicked'
    BY <1>0, <1>z, Zenon DEF Sched, Panic
  <1>10. \A d \in CPU \ {c} : X(d)' = X(d) /\ at'[d] = at[d]
    BY <1>0, <1>1, ZenonT(20) DEF Moves, SpinTypeOK
  <1>11. /\ \A d \in CPU \ {c} : sie'[d] = sie[d] /\ noff'[d] = noff[d] /\ intena'[d] = intena[d]
         /\ sie' \in [CPU -> BOOLEAN] /\ intena' \in [CPU -> BOOLEAN]
    BY <1>2, Zenon DEF Sets
  <1>12. ctx' \in [Ctx -> Context]
    BY <1>1, Zenon DEF Moves
  <1> QED
    BY <1>3, <1>4, <1>5, <1>6, <1>7, <1>8, <1>9, <1>10, <1>11, <1>12, ZenonT(20)
    DEF CpuStep

\* Locks, noff and interrupts stay in step: intr_on() in scheduler().
LEMMA IntrOnCpu ==
  ASSUME Constants, SpinInv, NEW c \in CPU, IntrOn(c)
  PROVE  CpuStep(c)
  <1>0. /\ SpinTypeOK /\ AtInv /\ HeldAt(c) /\ NoffAt(c) /\ OffAt(c) /\ OnAt(c)
        /\ CpuInv /\ OuterInv /\ SavedInv /\ ~panicked /\ X(c) \in Context /\ X(c) = ctx[at[c]] /\ OuterOf(at[c])
    BY XType DEF SpinInv, CpuInv, OuterInv, SpinTypeOK, NoLockPanic
  <1>z. at[c] = c /\ c \notin Thread /\ X(c).outer = {}
    BY SMTT(30), ZenonT(20) DEF IntrOn, Constants
  <1>1. Becomes(c, X(c).pc, X(c).want, X(c).old, X(c).held, X(c).on, X(c).outer)
    BY <1>0, <1>z, IntrOnIs
  <1>2. Sets(c, TRUE, noff[c], intena[c])
    BY <1>0, IntrOnSets, Zenon
  <1>3. HeldAt(c)'
    BY <1>0, <1>z, <1>1, <1>2, Zenon DEF Becomes, IntrOn, HeldAt, SpinTypeOK,
        Constants, Lock
  <1>4. NoffAt(c)'
    BY <1>0, <1>z, <1>1, <1>2, Zenon DEF Becomes, Sets, IntrOn, NoffAt, HeldAt
  <1>5. OffAt(c)'
    BY <1>0, <1>z, <1>1, <1>2, Zenon DEF Becomes, Sets, IntrOn, OffAt, NoffAt,
        HeldAt, OnAt, Tracked, OuterOf, SpinTypeOK, Context, Frame
  <1>6. OnAt(c)'
    BY <1>0, <1>z, <1>1, <1>2, NoffZero, SMTT(60) DEF Becomes, Sets, IntrOn,
        OnAt, Tracked, OffAt, NoffAt, OuterOf, SavedInv, Away, SpinTypeOK, Context,
        Frame
  <1>7. \A d \in CPU \ {c}, l1 \in Lock : owner'[l1] = d <=> owner[l1] = d
    BY <1>0, <1>z, Zenon DEF IntrOn, HeldAt, SpinTypeOK, Constants
  <1>8. /\ noff' \in [CPU -> Nat] /\ saved' \in [Thread -> BOOLEAN]
        /\ owner' \in [Lock -> CPU \cup {Nil}]
    BY <1>0, <1>z, ZenonT(40) DEF IntrOn, NoffAt, HeldAt, SpinTypeOK
  <1>9. ~panicked'
    BY <1>0, <1>z, SMTT(20) DEF IntrOn, Panic
  <1> QED
    BY <1>1, <1>2, <1>3, <1>4, <1>5, <1>6, <1>7, <1>8, <1>9, SMTT(30)
    DEF CpuStep, Becomes, Sets

\* Locks, noff and interrupts stay in step: swtch() to a process in scheduler().
LEMMA SwitchCpu ==
  ASSUME Constants, SpinInv, NEW c \in CPU, NEW t \in Thread, Switch(c, t)
  PROVE  CpuStep(c)
  <1>0. /\ SpinTypeOK /\ AtInv /\ HeldAt(c) /\ NoffAt(c) /\ OffAt(c) /\ OnAt(c)
        /\ CpuInv /\ OuterInv /\ SavedInv /\ ~panicked /\ X(c) \in Context /\ X(c) = ctx[at[c]] /\ OuterOf(at[c])
    BY XType DEF SpinInv, CpuInv, OuterInv, SpinTypeOK, NoLockPanic
  <1>z. /\ at[c] = c /\ X(c).held = {t} /\ X(c).pc = "run" /\ sie[c] = FALSE
        /\ owner[t] = c /\ noff[c] = 1 /\ Cardinality({t}) = 1 /\ IsFiniteSet({t})
        /\ ctx[t].pc \in {"run", "fork"} /\ (ctx[t].pc = "run" => saved[t] = ctx[t].on) /\ t \in Lock
    <2>1. at[c] = c /\ X(c).held = {t} /\ X(c).pc = "run" /\ t \in Lock /\ t \in Ctx /\ Away(t)
      BY ZenonT(20) DEF Switch, Lock, Ctx, Away
    <2>2. sie[c] = FALSE /\ owner[t] = c
      BY <1>0, <2>1, SMTT(20) DEF OffAt, HeldAt, SpinTypeOK
    <2>3. noff[c] = 1 /\ Cardinality({t}) = 1 /\ IsFiniteSet({t})
      BY <1>0, <2>1, OneLock, Zenon
    <2>4. ctx[t].pc \in {"run", "fork"} /\ (ctx[t].pc = "run" => saved[t] = ctx[t].on)
      BY <1>0, <2>1 DEF AtInv, SavedInv
    <2> QED
      BY <2>1, <2>2, <2>3, <2>4
  <1>1. Moves(c, c, t, t)
    BY <1>0, <1>z, SwitchIs, ZenonT(20)
  <1>2. Sets(c, sie[c], noff[c], IntenaOf(c, t))
    BY <1>0, SwitchSets
  <1>3. HeldAt(c)'
    BY <1>0, <1>z, <1>1, <1>2 DEF Moves, SameButHeld, Switch, IntenaOf, HeldAt,
        SpinTypeOK, Constants, Lock
  <1>4. NoffAt(c)'
    BY <1>0, <1>z, <1>1, <1>2, SMTT(30) DEF Moves, SameButHeld, Sets, Switch,
        IntenaOf, NoffAt, HeldAt
  <1>5. OffAt(c)'
    BY <1>0, <1>z, <1>1, <1>2, SMTT(30) DEF Moves, SameButHeld, Sets, Switch,
        IntenaOf, OffAt, NoffAt, HeldAt, OnAt, Tracked, OuterOf, SpinTypeOK,
        Context, Frame
  <1>6. OnAt(c)'
    BY <1>0, <1>z, <1>1, <1>2, NoffZero, SMTT(30) DEF Moves, SameButHeld, Sets,
        Switch, IntenaOf, OnAt, Tracked, OffAt, NoffAt, OuterOf, SavedInv,
        Away, SpinTypeOK, Context, Frame
  <1>7. \A d \in CPU \ {c}, l1 \in Lock : owner'[l1] = d <=> owner[l1] = d
    BY <1>0, <1>z DEF Switch, IntenaOf, HeldAt, SpinTypeOK, Constants
  <1>8. /\ noff' \in [CPU -> Nat] /\ saved' \in [Thread -> BOOLEAN]
        /\ owner' \in [Lock -> CPU \cup {Nil}]
    BY <1>0, <1>z DEF Switch, IntenaOf, NoffAt, HeldAt, SpinTypeOK
  <1>9. ~panicked'
    BY <1>0, <1>z DEF Switch, IntenaOf, Panic
  <1>10. \A d \in CPU \ {c} : X(d)' = X(d) /\ at'[d] = at[d]
    BY <1>0, <1>1, ZenonT(20) DEF Moves, SpinTypeOK
  <1>11. /\ \A d \in CPU \ {c} : sie'[d] = sie[d] /\ noff'[d] = noff[d] /\ intena'[d] = intena[d]
         /\ sie' \in [CPU -> BOOLEAN] /\ intena' \in [CPU -> BOOLEAN]
    BY <1>2, Zenon DEF Sets
  <1>12. ctx' \in [Ctx -> Context]
    BY <1>1, Zenon DEF Moves
  <1> QED
    BY <1>3, <1>4, <1>5, <1>6, <1>7, <1>8, <1>9, <1>10, <1>11, <1>12, ZenonT(20)
    DEF CpuStep

\* Every step keeps the state of its own CPU consistent, and that of the
\* others as it was.
LEMMA CpuSteps ==
  ASSUME Constants, SpinInv, NEW c \in CPU, StepOf(c)
  PROVE  CpuStep(c)
  <1>1. ASSUME NEW l \in Lock, AcquireRead(c, l) PROVE CpuStep(c)
    BY <1>1, AcquireReadCpu
  <1>2. ASSUME NEW l \in Lock, Release(c, l) PROVE CpuStep(c)
    BY <1>2, ReleaseCpu
  <1>3. CASE AcquireOff(c)
    BY <1>3, AcquireOffCpu
  <1>4. CASE AcquireSwap(c)
    BY <1>4, AcquireSwapCpu, SMTT(30)
  <1>5. CASE Interrupt(c)
    BY <1>5, InterruptCpu
  <1>6. CASE TrapReturn(c)
    BY <1>6, TrapReturnCpu
  <1>7. CASE UserReturn(c)
    BY <1>7, UserReturnCpu
  <1>8. CASE UserTrap(c)
    BY <1>8, UserTrapCpu
  <1>9. CASE Sched(c)
    BY <1>9, SchedCpu
  <1>10. CASE IntrOn(c)
    BY <1>10, IntrOnCpu
  <1>11. ASSUME NEW t \in Thread, Switch(c, t) PROVE CpuStep(c)
    BY <1>11, SwitchCpu
  <1> QED
    BY <1>1, <1>2, <1>3, <1>4, <1>5, <1>6, <1>7, <1>8, <1>9, <1>10, <1>11,
        SMTT(30)
    DEF StepOf

\* All the steps but the two switches change the context of the CPU alone.
OneContext(c) ==
  /\ at' = at /\ saved' = saved /\ \A x \in Ctx \ {at[c]} : ctx'[x] = ctx[x]
  /\ OuterOf(at[c])'

\* What is interrupted and what is saved stay right: push_off() reading sstatus.
LEMMA AcquireReadOuter ==
  ASSUME Constants, SpinInv, NEW c \in CPU, NEW l \in Lock, AcquireRead(c, l)
  PROVE  OneContext(c)
  <1>0. /\ SpinTypeOK /\ AtInv /\ HeldAt(c) /\ OffAt(c) /\ OnAt(c) /\ OuterOf(at[c])
        /\ X(c) \in Context /\ X(c) = ctx[at[c]] /\ at[c] \in Ctx
    BY XType, ZenonT(20) DEF SpinInv, CpuInv, OuterInv, SpinTypeOK
  <1>2. Becomes(c, "off", l, sie[c], X(c).held, X(c).on, X(c).outer)
    BY <1>0, AcquireReadIs
  <1>3. at' = at /\ saved' = saved /\ \A x \in Ctx \ {at[c]} : ctx'[x] = ctx[x]
    BY <1>2 DEF Becomes, AcquireRead
  <1>4. /\ ctx'[at[c]].outer = ctx[at[c]].outer /\ ctx'[at[c]].on = ctx[at[c]].on
        /\ ctx'[at[c]].pc = "user" => ctx'[at[c]].held = {}
        /\ ctx'[at[c]].pc \in {"run", "off", "spin"} \/ ctx'[at[c]].pc = ctx[at[c]].pc
    BY <1>0, <1>2, ZenonT(20) DEF Becomes, AcquireRead
  <1>5. OuterOf(at[c])'
    BY <1>0, <1>3, <1>4, ZenonT(20) DEF OuterOf
  <1> QED
    BY <1>3, <1>5 DEF OneContext

\* What is interrupted and what is saved stay right: release() with its pop_off().
LEMMA ReleaseOuter ==
  ASSUME Constants, SpinInv, NEW c \in CPU, NEW l \in Lock, Release(c, l)
  PROVE  OneContext(c)
  <1>0. /\ SpinTypeOK /\ AtInv /\ HeldAt(c) /\ OffAt(c) /\ OnAt(c) /\ OuterOf(at[c])
        /\ X(c) \in Context /\ X(c) = ctx[at[c]] /\ at[c] \in Ctx
    BY XType DEF SpinInv, CpuInv, OuterInv, SpinTypeOK
  <1>2. Becomes(c, X(c).pc, X(c).want, X(c).old, X(c).held \ {l}, X(c).on, X(c).outer)
    BY <1>0, ReleaseIs
  <1>3. at' = at /\ saved' = saved /\ \A x \in Ctx \ {at[c]} : ctx'[x] = ctx[x]
    BY <1>2 DEF Becomes, Release
  <1>4. /\ ctx'[at[c]].outer = ctx[at[c]].outer /\ ctx'[at[c]].on = ctx[at[c]].on
        /\ ctx'[at[c]].pc = "user" => ctx'[at[c]].held = {}
        /\ ctx'[at[c]].pc \in {"run", "off", "spin"} \/ ctx'[at[c]].pc = ctx[at[c]].pc
    BY <1>0, <1>2 DEF Becomes, Release
  <1>5. OuterOf(at[c])'
    BY <1>0, <1>3, <1>4 DEF OuterOf
  <1> QED
    BY <1>3, <1>5 DEF OneContext

\* What is interrupted and what is saved stay right: push_off() after intr_off().
LEMMA AcquireOffOuter ==
  ASSUME Constants, SpinInv, NEW c \in CPU, AcquireOff(c)
  PROVE  OneContext(c)
  <1>0. /\ SpinTypeOK /\ AtInv /\ HeldAt(c) /\ OffAt(c) /\ OnAt(c) /\ OuterOf(at[c])
        /\ X(c) \in Context /\ X(c) = ctx[at[c]] /\ at[c] \in Ctx
    BY XType DEF SpinInv, CpuInv, OuterInv, SpinTypeOK
  <1>2. Becomes(c, "spin", X(c).want, FALSE, X(c).held, X(c).on, X(c).outer)
    BY <1>0, AcquireOffIs, Zenon
  <1>3. at' = at /\ saved' = saved /\ \A x \in Ctx \ {at[c]} : ctx'[x] = ctx[x]
    BY <1>2 DEF Becomes, AcquireOff
  <1>4. /\ ctx'[at[c]].outer = ctx[at[c]].outer /\ ctx'[at[c]].on = ctx[at[c]].on
        /\ ctx'[at[c]].pc = "user" => ctx'[at[c]].held = {}
        /\ ctx'[at[c]].pc \in {"run", "off", "spin"} \/ ctx'[at[c]].pc = ctx[at[c]].pc
    BY <1>0, <1>2, ZenonT(20) DEF Becomes, AcquireOff
  <1>5. OuterOf(at[c])'
    BY <1>0, <1>3, <1>4 DEF OuterOf
  <1> QED
    BY <1>3, <1>5 DEF OneContext

\* What is interrupted and what is saved stay right: the successful swap of acquire().
LEMMA AcquireSwapOuter ==
  ASSUME Constants, SpinInv, NEW c \in CPU, AcquireSwap(c)
  PROVE  OneContext(c)
  <1>0. /\ SpinTypeOK /\ AtInv /\ HeldAt(c) /\ OffAt(c) /\ OnAt(c) /\ OuterOf(at[c])
        /\ X(c) \in Context /\ X(c) = ctx[at[c]] /\ at[c] \in Ctx
    BY XType DEF SpinInv, CpuInv, OuterInv, SpinTypeOK
  <1>1. X(c).want \in Lock /\ X(c).pc = "spin"
    BY <1>0, ZenonT(20) DEF AcquireSwap, HeldAt
  <1>2. Becomes(c, "run", Nil, X(c).old, X(c).held \cup {X(c).want}, X(c).on, X(c).outer)
    BY <1>0, <1>1, AcquireSwapIs
  <1>3. at' = at /\ saved' = saved /\ \A x \in Ctx \ {at[c]} : ctx'[x] = ctx[x]
    BY <1>2 DEF Becomes, AcquireSwap
  <1>4. /\ ctx'[at[c]].outer = ctx[at[c]].outer /\ ctx'[at[c]].on = ctx[at[c]].on
        /\ ctx'[at[c]].pc = "user" => ctx'[at[c]].held = {}
        /\ ctx'[at[c]].pc \in {"run", "off", "spin"} \/ ctx'[at[c]].pc = ctx[at[c]].pc
    BY <1>0, <1>2 DEF Becomes, AcquireSwap
  <1>5. OuterOf(at[c])'
    BY <1>0, <1>3, <1>4 DEF OuterOf
  <1> QED
    BY <1>3, <1>5 DEF OneContext

\* What is interrupted and what is saved stay right: entering kerneltrap().
LEMMA InterruptOuter ==
  ASSUME Constants, SpinInv, NEW c \in CPU, Interrupt(c)
  PROVE  OneContext(c)
  <1>0. /\ SpinTypeOK /\ AtInv /\ HeldAt(c) /\ OffAt(c) /\ OnAt(c) /\ OuterOf(at[c])
        /\ X(c) \in Context /\ X(c) = ctx[at[c]] /\ at[c] \in Ctx
    BY XType DEF SpinInv, CpuInv, OuterInv, SpinTypeOK
  <1>1. /\ X(c).held = {} /\ X(c).outer = {} /\ X(c).pc # "spin" /\ X(c).pc # "user"
        /\ sie[c] = TRUE /\ noff[c] = 0
    BY <1>0, NotNested, NoffZero DEF Interrupt, SpinTypeOK
  <1>2. Becomes(c, "run", Nil, FALSE, X(c).held, FALSE, {X(c)})
    BY <1>0, <1>1, InterruptIs, ZenonT(40)
  <1>3. X(c).pc \in {"run", "off", "fork"}
    BY <1>0, <1>1, ZenonT(20) DEF Context, Frame, SpinPCs
  <1>4. X(c).pc = "off" => X(c).old /\ X(c).want \in Lock
    BY <1>0, <1>1, ZenonT(20) DEF OffAt, HeldAt
  <1>5. at[c] \in Thread /\ X(c).pc # "fork" => X(c).on
    BY <1>0, <1>1, <1>3 DEF OnAt, Tracked
  <1> QED
    BY <1>0, <1>1, <1>2, <1>3, <1>4, <1>5 DEF OneContext, Becomes, Interrupt, OuterOf

\* What is interrupted and what is saved stay right: returning from kerneltrap().
LEMMA TrapReturnOuter ==
  ASSUME Constants, SpinInv, NEW c \in CPU, TrapReturn(c)
  PROVE  OneContext(c)
  <1>0. /\ SpinTypeOK /\ AtInv /\ HeldAt(c) /\ OffAt(c) /\ OnAt(c) /\ OuterOf(at[c])
        /\ X(c) \in Context /\ X(c) = ctx[at[c]] /\ at[c] \in Ctx
    BY XType DEF SpinInv, CpuInv, OuterInv, SpinTypeOK
  <1>1. PICK o \in X(c).outer : Becomes(c, o.pc, o.want, o.old, o.held, o.on, {})
    BY <1>0, TrapReturnIs
  <1> QED
    BY <1>0, <1>1, Zenon DEF OneContext, Becomes, TrapReturn, OuterOf

\* What is interrupted and what is saved stay right: usertrapret().
LEMMA UserReturnOuter ==
  ASSUME Constants, SpinInv, NEW c \in CPU, UserReturn(c)
  PROVE  OneContext(c)
  <1>0. /\ SpinTypeOK /\ AtInv /\ HeldAt(c) /\ OffAt(c) /\ OnAt(c) /\ OuterOf(at[c])
        /\ X(c) \in Context /\ X(c) = ctx[at[c]] /\ at[c] \in Ctx
    BY XType DEF SpinInv, CpuInv, OuterInv, SpinTypeOK
  <1> QED
    BY <1>0, UserReturnIs, Zenon DEF OneContext, Becomes, UserReturn, OuterOf

\* What is interrupted and what is saved stay right: entering usertrap().
LEMMA UserTrapOuter ==
  ASSUME Constants, SpinInv, NEW c \in CPU, UserTrap(c)
  PROVE  OneContext(c)
  <1>0. /\ SpinTypeOK /\ AtInv /\ HeldAt(c) /\ OffAt(c) /\ OnAt(c) /\ OuterOf(at[c])
        /\ X(c) \in Context /\ X(c) = ctx[at[c]] /\ at[c] \in Ctx
    BY XType DEF SpinInv, CpuInv, OuterInv, SpinTypeOK
  <1>1. PICK b \in BOOLEAN : Becomes(c, "run", Nil, FALSE, {}, b, {})
    BY <1>0, UserTrapIs, Zenon
  <1> QED
    BY <1>0, <1>1, Zenon DEF OneContext, Becomes, UserTrap, OuterOf

\* What is interrupted and what is saved stay right: intr_on() in scheduler().
LEMMA IntrOnOuter ==
  ASSUME Constants, SpinInv, NEW c \in CPU, IntrOn(c)
  PROVE  OneContext(c)
  <1>0. /\ SpinTypeOK /\ AtInv /\ HeldAt(c) /\ OffAt(c) /\ OnAt(c) /\ OuterOf(at[c])
        /\ X(c) \in Context /\ X(c) = ctx[at[c]] /\ at[c] \in Ctx
    BY XType DEF SpinInv, CpuInv, OuterInv, SpinTypeOK
  <1> QED
    BY <1>0, IntrOnIs, Zenon DEF OneContext, Becomes, IntrOn, OuterOf

\* The other invariants follow.
LEMMA OneContextStep ==
  ASSUME Constants, SpinInv, NEW c \in CPU, OneContext(c)
  PROVE  AtInv' /\ OuterInv' /\ SavedInv' /\ at' \in [CPU -> Ctx]
  <1>0. SpinTypeOK /\ AtInv /\ OuterInv /\ SavedInv /\ at' = at /\ saved' = saved
    BY DEF SpinInv, OneContext
  <1>1. \A x \in Ctx : Away(x)' <=> Away(x)
    BY <1>0 DEF Away
  <1>2. \A x \in Ctx : Away(x) => ctx'[x] = ctx[x]
    BY DEF Away, OneContext
  <1>3. AtInv'
    BY <1>0, <1>1, <1>2 DEF AtInv
  <1>4. SavedInv'
    BY <1>0, <1>1, <1>2, SMTT(30) DEF SavedInv, Ctx
  <1>5. ASSUME NEW x \in Ctx PROVE OuterOf(x)'
    BY <1>0 DEF OuterInv, OneContext, OuterOf
  <1> QED
    BY <1>0, <1>3, <1>4, <1>5 DEF OuterInv, SpinTypeOK

\* A switch between a thread and the scheduler keeps every context in one
\* place, what is interrupted consistent, and the saved intena right.
LEMMA MovesStep ==
  ASSUME Constants, SpinInv, NEW c \in CPU, NEW x, NEW y, NEW t, Moves(c, x, y, t),
         x \in Thread \cup {c}, y \in Thread \cup {c}, Away(y),
         ctx[x].pc = "run", x \in CPU => ctx[x].outer = {}
  PROVE  AtInv' /\ OuterInv' /\ at' \in [CPU -> Ctx]
  <1>0. SpinTypeOK /\ AtInv /\ OuterInv /\ at \in [CPU -> Ctx]
    BY DEF SpinInv, SpinTypeOK
  <1>1. at'[c] = y /\ (\A d \in CPU \ {c} : at'[d] = at[d]) /\ at' \in [CPU -> Ctx]
    BY <1>0 DEF Moves
  <1>2. \A d \in CPU : at'[d] \in Thread \cup {d}
    BY <1>0, <1>1 DEF AtInv
  <1>3. \A d, e \in CPU : at'[d] = at'[e] => d = e
    BY <1>0, <1>1, SMTT(20) DEF AtInv, Away
  <1>4. ASSUME NEW z \in Ctx, Away(z)'
        PROVE  /\ ctx'[z].held = {} /\ ctx'[z].pc \in {"run", "fork"}
               /\ (z \in CPU => ctx'[z].outer = {})
    <2>1. z # y
      BY <1>1, <1>4, ZenonT(20) DEF Away
    <2>2. CASE z = x
      BY <2>2, ZenonT(20) DEF Moves, SameButHeld
    <2>3. CASE z # x
      <3>1. Away(z)
        BY <1>1, <1>4, <2>3 DEF Away, Moves
      <3>2. ctx'[z] = ctx[z]
        BY <2>1, <2>3, ZenonT(20) DEF Moves
      <3> QED
        BY <1>0, <3>1, <3>2 DEF AtInv
    <2> QED
      BY <2>2, <2>3
  <1>5. AtInv'
    BY <1>2, <1>3, <1>4 DEF AtInv
  <1>6. ASSUME NEW z \in Ctx PROVE OuterOf(z)'
    <2>1. ctx[y].pc \in {"run", "fork"}
      BY <1>0, ZenonT(20) DEF AtInv, Moves
    <2>2. CASE z \in {x, y}
      BY <1>0, <2>1, <2>2, ZenonT(20) DEF OuterInv, OuterOf, Moves, SameButHeld
    <2>3. CASE z \notin {x, y}
      BY <1>0, <2>3 DEF OuterInv, OuterOf, Moves
    <2> QED
      BY <2>2, <2>3, ZenonT(20)
  <1> QED
    BY <1>1, <1>5, <1>6, ZenonT(20) DEF OuterInv

\* sched() keeps what concerns the contexts.
LEMMA SchedStep ==
  ASSUME Constants, SpinInv, NEW c \in CPU, Sched(c)
  PROVE  AtInv' /\ OuterInv' /\ SavedInv' /\ at' \in [CPU -> Ctx]
  <1>0. SpinTypeOK /\ AtInv /\ SavedInv /\ OnAt(c) /\ NoffAt(c)
    BY DEF SpinInv, CpuInv
  <1> DEFINE x == at[c]
  <1>1. x \in Thread /\ X(c) = ctx[x] /\ X(c).pc = "run" /\ X(c).held = {x} /\ c \notin Thread
    BY <1>0 DEF Sched, X, Constants
  <1>2. Moves(c, x, c, x)
    BY <1>0, SchedIs, ZenonT(20)
  <1>3. Away(c)
    BY <1>0, <1>1 DEF Away, AtInv, Constants
  <1>4. noff[c] = 1
    BY <1>0, <1>1, OneLock, ZenonT(20)
  <1>5. saved'[x] = ctx[x].on /\ \A t \in Thread \ {x} : saved'[t] = saved[t]
    BY <1>0, <1>1, <1>4 DEF Sched, SpinTypeOK, OnAt, Tracked
  <1>6. ASSUME NEW t \in Thread, Away(t)', ctx'[t].pc = "run" PROVE saved'[t] = ctx'[t].on
    <2>1. CASE t = x
      BY <1>2, <1>5, <2>1 DEF Moves, SameButHeld
    <2>2. CASE t # x
      <3>1. ctx'[t] = ctx[t] /\ Away(t) /\ saved'[t] = saved[t]
        BY <1>0, <1>1, <1>2, <1>5, <1>6, <2>2, ZenonT(20) DEF Moves, Away, SpinTypeOK, Ctx
      <3> QED
        BY <1>0, <1>6, <3>1, ZenonT(20) DEF SavedInv
    <2> QED
      BY <2>1, <2>2
  <1>7. x \in CPU => ctx[x].outer = {}
    BY <1>1, ZenonT(20) DEF Constants
  <1>8. AtInv' /\ OuterInv' /\ at' \in [CPU -> Ctx]
    BY <1>1, <1>2, <1>3, <1>7, MovesStep
  <1> QED
    BY <1>6, <1>8 DEF SavedInv

\* The switch of scheduler() keeps what concerns the contexts.
LEMMA SwitchStep ==
  ASSUME Constants, SpinInv, NEW c \in CPU, NEW t \in Thread, Switch(c, t)
  PROVE  AtInv' /\ OuterInv' /\ SavedInv' /\ at' \in [CPU -> Ctx]
  <1>0. SpinTypeOK /\ AtInv /\ SavedInv
    BY DEF SpinInv
  <1>1. /\ at[c] = c /\ ctx[c].pc = "run" /\ ctx[c].outer = {} /\ Away(t) /\ c \notin Thread
        /\ saved' = [saved EXCEPT ![t] = FALSE]
    BY DEF Switch, X, Away, Constants
  <1>2. Moves(c, c, t, t)
    BY <1>0, SwitchIs, ZenonT(20)
  <1>3. at'[c] = t
    BY <1>0, <1>2 DEF Moves, SpinTypeOK
  <1>4. ASSUME NEW u \in Thread, Away(u)', ctx'[u].pc = "run" PROVE saved'[u] = ctx'[u].on
    <2>1. u # t /\ u # c
      BY <1>1, <1>3, <1>4, ZenonT(20) DEF Away
    <2>2. ctx'[u] = ctx[u] /\ saved'[u] = saved[u]
      BY <1>0, <1>1, <1>2, <2>1, ZenonT(20) DEF Moves, SpinTypeOK, Ctx
    <2>3. Away(u)
      BY <1>0, <1>1, <1>2, <1>4, <2>1, ZenonT(20) DEF Moves, Away, SpinTypeOK
    <2> QED
      BY <1>0, <1>4, <2>2, <2>3 DEF SavedInv
  <1>5. AtInv' /\ OuterInv' /\ at' \in [CPU -> Ctx]
    BY <1>1, <1>2, MovesStep, ZenonT(20)
  <1> QED
    BY <1>4, <1>5 DEF SavedInv

\* Every step of a CPU keeps what concerns the contexts.
LEMMA ContextSteps ==
  ASSUME Constants, SpinInv, NEW c \in CPU, StepOf(c)
  PROVE  AtInv' /\ OuterInv' /\ SavedInv' /\ at' \in [CPU -> Ctx]
  <1>1. ASSUME NEW l \in Lock, AcquireRead(c, l) PROVE AtInv' /\ OuterInv' /\ SavedInv' /\ at' \in [CPU -> Ctx]
    BY <1>1, AcquireReadOuter, OneContextStep
  <1>2. ASSUME NEW l \in Lock, Release(c, l) PROVE AtInv' /\ OuterInv' /\ SavedInv' /\ at' \in [CPU -> Ctx]
    BY <1>2, ReleaseOuter, OneContextStep
  <1>3. CASE AcquireOff(c)
    BY <1>3, AcquireOffOuter, OneContextStep
  <1>4. CASE AcquireSwap(c)
    BY <1>4, AcquireSwapOuter, OneContextStep, SMTT(30)
  <1>5. CASE Interrupt(c)
    BY <1>5, InterruptOuter, OneContextStep
  <1>6. CASE TrapReturn(c)
    BY <1>6, TrapReturnOuter, OneContextStep
  <1>7. CASE UserReturn(c)
    BY <1>7, UserReturnOuter, OneContextStep
  <1>8. CASE UserTrap(c)
    BY <1>8, UserTrapOuter, OneContextStep
  <1>9. CASE Sched(c)
    BY <1>9, SchedStep
  <1>10. CASE IntrOn(c)
    BY <1>10, IntrOnOuter, OneContextStep
  <1>11. ASSUME NEW t \in Thread, Switch(c, t) PROVE AtInv' /\ OuterInv' /\ SavedInv' /\ at' \in [CPU -> Ctx]
    BY <1>11, SwitchStep, ZenonT(20)
  <1> QED
    BY <1>1, <1>2, <1>3, <1>4, <1>5, <1>6, <1>7, <1>8, <1>9, <1>10, <1>11,
        SMTT(30)
    DEF StepOf

\* Every step of a CPU keeps the invariant.
LEMMA SpinStep ==
  ASSUME Constants, SpinInv, NEW c \in CPU, StepOf(c)
  PROVE  SpinInv'
  <1>1. CpuStep(c) /\ AtInv' /\ OuterInv' /\ SavedInv' /\ at' \in [CPU -> Ctx]
    BY CpuSteps, ContextSteps
  <1>2. CpuInv
    BY DEF SpinInv
  <1>3. ASSUME NEW d \in CPU PROVE HeldAt(d)' /\ NoffAt(d)' /\ OffAt(d)' /\ OnAt(d)'
    <2>1. CASE d = c
      BY <1>1, <2>1 DEF CpuStep
    <2>2. CASE d # c
      <3>1. /\ X(d)' = X(d) /\ at'[d] = at[d]
            /\ sie'[d] = sie[d] /\ noff'[d] = noff[d] /\ intena'[d] = intena[d]
            /\ \A l \in Lock : owner'[l] = d <=> owner[l] = d
        BY <1>1, <2>2, ZenonT(20) DEF CpuStep
      <3>2. HeldAt(d)'
        BY <1>2, <3>1, SMTT(20) DEF CpuInv, HeldAt
      <3>3. NoffAt(d)' /\ OffAt(d)' /\ OnAt(d)'
        BY <1>2, <3>1, ZenonT(40) DEF CpuInv, NoffAt, OffAt, OnAt, Tracked
      <3> QED
        BY <3>2, <3>3, ZenonT(20)
    <2> QED
      BY <2>1, <2>2, ZenonT(20)
  <1>4. SpinTypeOK'
    BY <1>1 DEF CpuStep, SpinTypeOK
  <1> QED
    BY <1>1, <1>3, <1>4 DEF SpinInv, CpuInv, CpuStep, NoLockPanic

\* It holds when the CPUs enter scheduler().
LEMMA InvInit ==
  ASSUME Constants, SpinInit
  PROVE  SpinInv
  <1>1. \A x \in Ctx : /\ ctx[x] \in Context /\ ctx[x].held = {} /\ ctx[x].outer = {}
                       /\ ctx[x].pc \in {"run", "fork"} /\ (ctx[x].pc = "run" => x \in CPU)
    <2>1. Run(TRUE) \in Context /\ [Run(FALSE) EXCEPT !.pc = "fork"] \in Context
      BY Zenon DEF Context, Frame, SpinPCs, Run, Outers
    <2> QED
      BY <2>1 DEF SpinInit, Run
  <1>2. \A c \in CPU : /\ at[c] = c /\ c \in Ctx /\ X(c) = ctx[c] /\ c \notin Thread
                       /\ noff[c] = 0 /\ sie[c] = FALSE
    BY DEF SpinInit, X, Ctx, Constants
  <1>3. SpinTypeOK
    <2>1. ctx \in [Ctx -> Context]
      BY <1>1, Zenon DEF SpinInit
    <2> QED
      BY <2>1, Zenon DEF SpinInit, SpinTypeOK, Ctx
  <1>4. AtInv
    BY <1>1, <1>2, ZenonT(20) DEF AtInv
  <1>5. ASSUME NEW c \in CPU PROVE HeldAt(c) /\ NoffAt(c) /\ OffAt(c) /\ OnAt(c)
    <2>1. X(c).held = {} /\ X(c).outer = {} /\ X(c).pc \in {"run", "fork"}
      BY <1>1, <1>2
    <2>2. \A l \in Lock : owner[l] # c
      BY DEF SpinInit, Constants
    <2>3. IsFiniteSet({}) /\ Cardinality({}) = 0
      BY FS_EmptySet
    <2>4. HeldAt(c) /\ NoffAt(c)
      BY <1>2, <2>1, <2>2, <2>3, SMTT(30) DEF HeldAt, NoffAt
    <2> QED
      BY <1>2, <2>1, <2>4 DEF OffAt, OnAt, Tracked
  <1>6. OuterInv
    BY <1>1 DEF OuterInv, OuterOf
  <1>7. SavedInv
    BY <1>1 DEF SavedInv, Constants, Ctx
  <1> QED
    BY <1>3, <1>4, <1>5, <1>6, <1>7 DEF SpinInv, CpuInv, NoLockPanic, SpinInit

\* A step that changes nothing keeps it.
LEMMA SpinStutter ==
  ASSUME SpinInv, UNCHANGED spinvars
  PROVE  SpinInv'
  <1>0. /\ ctx' = ctx /\ at' = at /\ owner' = owner /\ saved' = saved
        /\ sie' = sie /\ noff' = noff /\ intena' = intena /\ panicked' = panicked
    BY DEF spinvars
  <1>1. \A c \in CPU : X(c)' = X(c)
    BY <1>0, SMTT(20) DEF X
  <1>2. SpinTypeOK' /\ AtInv' /\ OuterInv' /\ SavedInv' /\ NoLockPanic'
    BY <1>0, ZenonT(40) DEF SpinInv, SpinTypeOK, AtInv, Away, OuterInv, OuterOf,
        SavedInv, NoLockPanic
  <1>3. ASSUME NEW c \in CPU PROVE HeldAt(c)' /\ NoffAt(c)' /\ OffAt(c)' /\ OnAt(c)'
    <2>0. HeldAt(c) /\ NoffAt(c) /\ OffAt(c) /\ OnAt(c)
      BY <1>0, Zenon DEF SpinInv, CpuInv
    <2>1. HeldAt(c)' /\ NoffAt(c)'
      BY <1>0, <1>1, <2>0, ZenonT(20) DEF HeldAt, NoffAt
    <2>2. OffAt(c)'
      BY <1>0, <1>1, <2>0, ZenonT(20) DEF OffAt
    <2>3. OnAt(c)'
      BY <1>0, <1>1, <2>0, ZenonT(20) DEF OnAt, Tracked
    <2> QED
      BY <2>1, <2>2, <2>3
  <1> QED
    BY <1>2, <1>3 DEF SpinInv, CpuInv

\* What push_off() and pop_off(), acquire() and release(), sched() and the
\* traps keep true of every CPU and of every context, running or switched
\* out.
THEOREM SpinInvariant ==
  ASSUME Constants
  PROVE  SpinSpec => []SpinInv
  <1>1. SpinInit => SpinInv
    BY InvInit
  <1>2. SpinInv /\ [SpinNext]_spinvars => SpinInv'
    BY SpinStep, SpinStutter, ZenonT(20) DEF SpinNext
  <1> QED
    BY <1>1, <1>2, PTL DEF SpinSpec

\* lk->cpu names CPU c for the locks of the context that c executes.
LEMMA LocksOf ==
  SpinInv => \A c \in CPU : {l \in Lock : owner[l] = c} = X(c).held
  <1> SUFFICES ASSUME SpinInv, NEW c \in CPU
               PROVE  {l \in Lock : owner[l] = c} = X(c).held
    OBVIOUS
  <1>1. HeldAt(c) /\ X(c) \in Context
    BY XType DEF SpinInv, CpuInv
  <1>2. X(c).held \subseteq Lock
    BY <1>1 DEF Context, Frame
  <1> QED
    BY <1>1, <1>2, ZenonT(20) DEF HeldAt

\* For any number of CPUs and processes: a CPU that holds a spinlock has its
\* interrupts off and noff counts its locks; outside any lock a process has
\* interrupts as its own code left them, on whatever CPU it runs by now; and
\* no panic of acquire(), release(), pop_off() or sched() is reached.
THEOREM InterruptsAndLocks ==
  ASSUME Constants
  PROVE  SpinSpec => []LockDiscipline
  <1>1. SpinInv => OffWhileLocked
    <2> SUFFICES ASSUME SpinInv, NEW c \in CPU
                 PROVE  LET n == Cardinality({l \in Lock : owner[l] = c}) IN
                        /\ n > 0 => ~sie[c]
                        /\ noff[c] = n + (IF X(c).pc = "spin" THEN 1 ELSE 0)
      BY DEF OffWhileLocked
    <2>1. {l \in Lock : owner[l] = c} = X(c).held
      BY LocksOf
    <2>2. HeldAt(c) /\ NoffAt(c) /\ OffAt(c)
      BY SMTT(30) DEF SpinInv, CpuInv
    <2>3. Cardinality(X(c).held) > 0 => X(c).held # {}
      BY <2>2, Counting
    <2>4. Cardinality(X(c).held) > 0 => ~sie[c]
      BY <2>2, <2>3, ZenonT(20) DEF OffAt
    <2> QED
      BY <2>1, <2>2, <2>4 DEF NoffAt
  <1>2. SpinInv => EnableRestored
    <2> SUFFICES ASSUME SpinInv, NEW c \in CPU, at[c] \in Thread, X(c).held = {},
                        X(c).pc \in {"run", "off"}
                 PROVE  sie[c] = X(c).on
      BY DEF EnableRestored
    <2>1. noff[c] = 0
      BY NoffZero
    <2> QED
      BY <2>1 DEF SpinInv, CpuInv, OnAt, Tracked
  <1>3. SpinInv => NoLockPanic
    BY DEF SpinInv
  <1> QED
    <2>1. SpinInv => LockDiscipline
      BY <1>1, <1>2, <1>3 DEF LockDiscipline
    <2> QED
      BY <2>1, SpinInvariant, PTL

=============================================================================
