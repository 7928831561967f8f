--------------------------- MODULE AmqpRoutingProofs ---------------------------
(***************************************************************************)
(* Proofs about AmqpRouting, for any classes, messages and losses.         *)
(***************************************************************************)
EXTENDS AmqpRouting, SequenceTheorems, TLAPS

-----------------------------------------------------------------------------
(* Names.                                                                  *)

\* The queue of a class with a ROUTING is named after the exchange and the class.
LEMMA RoutedName ==
    ASSUME NEW c \in Routed
    PROVE  QueueName(c) = <<"exchange", c>>
<1> DEFINE S == {"exchange", c}
           s == <<"exchange">> \o <<c>>
<1>1. <<"exchange">> \in Seq(S) /\ <<c>> \in Seq(S) /\ <<"exchange", c>> \in Seq(S)
  OBVIOUS
<1>2. Len(<<"exchange">>) = 1 /\ Len(<<c>>) = 1 /\ Len(<<"exchange", c>>) = 2
  OBVIOUS
<1>3. /\ s \in Seq(S) /\ Len(s) = 2
      /\ \A i \in 1..2 : s[i] = IF i <= 1 THEN <<"exchange">>[i] ELSE <<c>>[i - 1]
  <2>1. /\ s \in Seq(S)
        /\ Len(s) = Len(<<"exchange">>) + Len(<<c>>)
        /\ \A i \in 1..(Len(<<"exchange">>) + Len(<<c>>)) :
               s[i] = IF i <= Len(<<"exchange">>) THEN <<"exchange">>[i]
                      ELSE <<c>>[i - Len(<<"exchange">>)]
    BY <1>1, ConcatProperties
  <2>2. QED
    BY <1>2, <2>1
<1>4. \A i \in 1..Len(s) : s[i] = <<"exchange", c>>[i]
  <2>1. s[1] = "exchange" /\ s[2] = c
    BY <1>3
  <2>2. ASSUME NEW i \in 1..2 PROVE i = 1 \/ i = 2
    OBVIOUS
  <2>3. QED
    BY <1>3, <2>1, <2>2
<1>5. s = <<"exchange", c>>
  BY <1>1, <1>2, <1>3, <1>4, SeqEqual
<1>6. QED
  BY <1>5 DEF QueueName, Exchange, workflowVariant

\* That of any other after the class alone.
LEMMA DirectName ==
    ASSUME NEW c \in Direct
    PROVE  QueueName(c) = <<c>>
BY RoutingAssumption DEF QueueName

\* No two classes share a queue.
LEMMA OwnName ==
    ASSUME NEW c \in Class, NEW d \in Class, QueueName(c) = QueueName(d)
    PROVE  c = d
<1>1. CASE c \in Routed /\ d \in Routed
  <2>1. <<"exchange", c>> = <<"exchange", d>>
    BY <1>1, RoutedName
  <2>2. QED
    BY <2>1
<1>2. CASE c \in Direct /\ d \in Direct
  <2>1. <<c>> = <<d>>
    BY <1>2, DirectName
  <2>2. QED
    BY <2>1
<1>3. CASE c \in Routed /\ d \in Direct
  <2>1. <<"exchange", c>> = <<d>>
    BY <1>3, RoutedName, DirectName
  <2>2. QED
    BY <2>1
<1>4. CASE c \in Direct /\ d \in Routed
  <2>1. <<"exchange", d>> = <<c>>
    BY <1>4, RoutedName, DirectName
  <2>2. QED
    BY <2>1
<1>5. QED
  BY <1>1, <1>2, <1>3, <1>4 DEF Class, Routed

\* What a sender declares under the whole address is no class's queue.
LEMMA SenderName ==
    ASSUME NEW c \in Class, NEW d
    PROVE  QueueName(c) # <<"/amq/queue/", d>>
<1>1. CASE c \in Routed
  <2>1. <<"exchange", c>> # <<"/amq/queue/", d>>
    OBVIOUS
  <2>2. QED
    BY <1>1, <2>1, RoutedName
<1>2. CASE c \in Direct
  <2>1. <<c>> # <<"/amq/queue/", d>>
    OBVIOUS
  <2>2. QED
    BY <1>2, <2>1, DirectName
<1>3. QED
  BY <1>1, <1>2 DEF Class, Routed

-----------------------------------------------------------------------------
(* The invariant.                                                          *)

\* The options that a class's queue can have been declared with.
OptionsOf(c) ==
    IF c \in Durable THEN {[durable |-> TRUE, temporary |-> FALSE]}
    ELSE IF c \in Direct THEN {TemporaryOptions}
    ELSE {RoutedOptions(c), TemporaryOptions}

Binding(c) == <<Exchange, QueueName(c), BindingKey(c)>>

\* Each queue is a class's, with its options, or one that a sender has declared.
QueuesOK == \A q \in queues :
    \/ \E c \in Class : q.name = QueueName(c) /\ q.options \in OptionsOf(c)
    \/ \E c \in Direct : q.name = <<"/amq/queue/", c>> /\ q.options = TemporaryOptions

BindingsOK == \A b \in bindings : \E c \in Routed : b = Binding(c)

\* Only a class whose queue is there has come to listen.
ListenedOK == \A c \in listened : Exists(QueueName(c))

\* What listen has done at each stage; a durable queue and its binding stay.
StageOK == \A c \in Class :
    /\ stage[c] \in {"exchange", "queue", "bind"} => c \in Routed
    /\ stage[c] \in {"queue", "bind"} => Exchange \in exchanges
    /\ stage[c] = "temporary" => c \notin Durable
    /\ stage[c] = "refused" => c \in Routed \ Durable
    /\ c \in Durable /\ stage[c] = "bind" => Exists(QueueName(c))
    /\ c \in Durable \cap Routed /\ (stage[c] \in {"attach", "listening"} \/ c \in listened) =>
           Binding(c) \in bindings

\* The broker's part of TypeOK, and that stored is a function.
BrokerTypes ==
    /\ exchanges \subseteq {Exchange}
    /\ \A q \in queues : q.options \in Options
    /\ \A b \in bindings : b[1] \in exchanges /\ Exists(b[2])
    /\ \A m \in Message : \A name \in stored[m] : Exists(name)
    /\ stored = [m \in Message |-> stored[m]]
    /\ listened \subseteq Class

BrokerOK == BrokerTypes /\ QueuesOK /\ BindingsOK /\ ListenedOK /\ NoStray

\* The process's part of TypeOK.
ProcessTypes ==
    /\ process \in {"up", "down", "refused"}
    /\ stage \in [Class -> Stages]
    /\ sent \in [Message -> {Unsent} \cup [class : Class, global : BOOLEAN, status : Outcomes]]
    /\ losses \in 0..MaxLosses

IInv == BrokerOK /\ ProcessTypes /\ StageOK

\* What becomes of the receivers disturbs nothing else and has an invariant of its own.
ReceiverOK == receiver \in [Class -> Receivers]

\* The invariants give the types.
LEMMA Types == IInv /\ ReceiverOK => TypeOK
BY DEF IInv, BrokerOK, BrokerTypes, ProcessTypes, ReceiverOK, TypeOK

\* A queue that has a class's name has a class's options.
LEMMA OwnOptions ==
    ASSUME QueuesOK, NEW q \in queues, NEW c \in Class, q.name = QueueName(c)
    PROVE  q.options \in OptionsOf(c)
<1>1. CASE \E d \in Class : q.name = QueueName(d) /\ q.options \in OptionsOf(d)
  BY <1>1, OwnName
<1>2. CASE \E d \in Direct : q.name = <<"/amq/queue/", d>>
  BY <1>2, SenderName
<1>3. QED
  BY <1>1, <1>2 DEF QueuesOK

\* No loss deletes a durable queue.
LEMMA DurableStays ==
    ASSUME QueuesOK, NEW c \in Durable
    PROVE  QueueName(c) \notin AutoDeleted /\ QueueName(c) \notin Volatile
<1>1. ASSUME NEW q \in queues, q.name = QueueName(c)
      PROVE  q.options.durable = TRUE /\ q.options.temporary = FALSE
  <2>1. q.options \in OptionsOf(c)
    BY <1>1, OwnOptions, RoutingAssumption
  <2>2. QED
    BY <2>1 DEF OptionsOf
<1>2. QED
  BY <1>1 DEF AutoDeleted, Volatile

\* The deletion of other queues takes nothing from the durable ones.
LEMMA DeleteStep ==
    ASSUME BrokerOK, NEW STATE names, Delete(names), \A c \in Durable : QueueName(c) \notin names
    PROVE  /\ BrokerOK'
           /\ exchanges' = exchanges /\ sent' = sent /\ listened' \subseteq listened
           /\ \A c \in Durable : Exists(QueueName(c)) => Exists(QueueName(c))'
           /\ \A c \in Durable \cap Routed : Binding(c) \in bindings => Binding(c) \in bindings'
<1>1. /\ queues' = {q \in queues : q.name \notin names}
      /\ bindings' = {b \in bindings : b[2] \notin names}
      /\ stored' = [m \in Message |-> stored[m] \ names]
      /\ listened' = {c \in listened : QueueName(c) \notin names}
      /\ exchanges' = exchanges /\ sent' = sent
  BY DEF Delete
<1>2. \A n : Exists(n) /\ n \notin names => Exists(n)'
  BY <1>1 DEF Exists
<1>3. QueuesOK' /\ BindingsOK'
  BY <1>1 DEF BrokerOK, QueuesOK, BindingsOK
<1>4. ListenedOK'
  BY <1>1, <1>2 DEF BrokerOK, ListenedOK
<1>5. NoStray'
  BY <1>1 DEF BrokerOK, NoStray
<1>6. BrokerTypes'
  BY <1>1, <1>2 DEF BrokerOK, BrokerTypes
<1>7. ASSUME NEW c \in Durable \cap Routed, Binding(c) \in bindings PROVE Binding(c) \in bindings'
  BY <1>1, <1>7 DEF Binding
<1>8. QED
  BY <1>1, <1>2, <1>3, <1>4, <1>5, <1>6, <1>7 DEF BrokerOK

\* Nothing is declared but the queues of others.
LEMMA InitInv == Init => IInv
<1> SUFFICES ASSUME Init PROVE IInv
  OBVIOUS
<1>q. ASSUME NEW q \in queues
      PROVE  \E c \in Direct \cap Durable :
                 q.name = <<c>> /\ q.options = [durable |-> TRUE, temporary |-> FALSE]
  <2>1. queues = {[name |-> <<c>>, options |-> [durable |-> TRUE, temporary |-> FALSE]]
                     : c \in Direct \cap Durable}
    BY DEF Init
  <2>2. PICK c \in Direct \cap Durable :
            q = [name |-> <<c>>, options |-> [durable |-> TRUE, temporary |-> FALSE]]
    BY <1>q, <2>1
  <2>3. QED
    BY <2>2
<1>1. QueuesOK
  <2>1. ASSUME NEW q \in queues
        PROVE  \E c \in Class : q.name = QueueName(c) /\ q.options \in OptionsOf(c)
    <3>1. PICK c \in Direct \cap Durable :
              q.name = <<c>> /\ q.options = [durable |-> TRUE, temporary |-> FALSE]
      BY <1>q
    <3>2. q.name = QueueName(c) /\ q.options \in OptionsOf(c)
      BY <3>1, DirectName DEF OptionsOf
    <3>3. QED
      BY <3>2 DEF Class
  <2>2. QED
    BY <2>1 DEF QueuesOK
<1>2. BrokerTypes /\ BindingsOK /\ ListenedOK /\ NoStray
  <2>1. ASSUME NEW q \in queues PROVE q.options \in Options
    <3>1. q.options = [durable |-> TRUE, temporary |-> FALSE]
      BY <1>q
    <3>2. QED
      BY <3>1 DEF Options
  <2>2. /\ exchanges = {} /\ bindings = {} /\ listened = {}
        /\ stored = [m \in Message |-> {}]
    BY DEF Init
  <2>3. QED
    BY <2>1, <2>2 DEF BrokerTypes, BindingsOK, ListenedOK, NoStray
<1>3. ProcessTypes
  BY LossAssumption DEF Init, ProcessTypes, Stages, Listen, AfterBuild
<1>4. StageOK
  BY RoutingAssumption DEF Init, StageOK, Listen, AfterBuild, NeedsTemporary
<1>5. QED
  BY <1>1, <1>2, <1>3, <1>4 DEF IInv, BrokerOK

-----------------------------------------------------------------------------
(* Where messages go.                                                      *)

\* A message addressed as its class says reaches its class's queue or those of fanout
\* classes, and no other.
LEMMA ReachesOwn ==
    ASSUME BrokerOK, NEW c \in Class, NEW global \in BOOLEAN,
           NEW name \in Reaches(c, IF c \in Routed THEN Exchange ELSE <<c>>, global)
    PROVE  Exists(name) /\ (name = QueueName(c) \/ \E f \in Fanout : name = QueueName(f))
<1> DEFINE address == IF c \in Routed THEN Exchange ELSE <<c>>
<1>1. CASE global \/ c \in Routed
  <2>1. name \in Bound(address, RoutingKey(c, global))
    BY <1>1 DEF Reaches, workflowVariant
  <2>2. PICK b \in bindings : b[2] = name /\ b[3] \in {<<"#">>, RoutingKey(c, global)}
    BY <2>1 DEF Bound
  <2>3. PICK d \in Routed : b = Binding(d)
    BY DEF BrokerOK, BindingsOK
  <2>4. name = QueueName(d) /\ b[3] = BindingKey(d)
    BY <2>2, <2>3 DEF Binding
  <2>5. CASE d \in Fanout
    BY <2>2, <2>4, <2>5 DEF BrokerOK, BrokerTypes
  <2>6. CASE d \in Topic
    <3>1. b[3] = <<d>>
      BY <2>4, <2>6, RoutingAssumption DEF BindingKey, workflowVariant
    <3>2. <<d>> # <<"#">> /\ <<d>> # <<"*">>
      <4>1. d \in Class
        BY <2>6 DEF Class
      <4>2. d # "#" /\ d # "*"
        BY <4>1, NamesAssumption
      <4>3. QED
        BY <4>2
    <3>3. <<d>> = <<c>>
      BY <2>2, <3>1, <3>2 DEF RoutingKey
    <3>4. d = c
      BY <3>3
    <3>5. QED
      BY <2>2, <2>4, <3>4 DEF BrokerOK, BrokerTypes
  <2>7. QED
    BY <2>5, <2>6 DEF Routed
<1>2. CASE ~global /\ c \notin Routed
  <2>1. name = <<c>> /\ Exists(name)
    BY <1>2 DEF Reaches, workflowVariant
  <2>2. QED
    BY <1>2, <2>1 DEF QueueName
<1>3. QED
  BY <1>1, <1>2

\* A message without an address reaches nothing.
LEMMA ReachesNothing ==
    ASSUME BrokerOK, NEW c \in Class
    PROVE  Reaches(c, Undefined, FALSE) = {}
<1>1. CASE c \in Routed
  <2>1. ASSUME NEW b \in bindings PROVE b[1] # Undefined
    <3>1. PICK d \in Routed : b = Binding(d)
      BY DEF BrokerOK, BindingsOK
    <3>2. <<"exchange">> # <<"undefined">>
      OBVIOUS
    <3>3. QED
      BY <3>1, <3>2 DEF Binding, Exchange, Undefined
  <2>2. Bound(Undefined, RoutingKey(c, FALSE)) = {}
    BY <2>1 DEF Bound
  <2>3. QED
    BY <1>1, <2>2 DEF Reaches, workflowVariant
<1>2. CASE c \notin Routed
  <2>1. ASSUME NEW q \in queues PROVE q.name # Undefined
    <3>1. ASSUME NEW d \in Class PROVE QueueName(d) # Undefined
      <4>1. CASE d \in Routed
        <5>1. <<"exchange", d>> # <<"undefined">>
          OBVIOUS
        <5>2. QED
          BY <4>1, <5>1, RoutedName DEF Undefined
      <4>2. CASE d \in Direct
        <5>1. d # "undefined"
          BY NamesAssumption
        <5>2. <<d>> # <<"undefined">>
          BY <5>1
        <5>3. QED
          BY <4>2, <5>2, DirectName DEF Undefined
      <4>3. QED
        BY <4>1, <4>2 DEF Class, Routed
    <3>2. ASSUME NEW d \in Direct PROVE <<"/amq/queue/", d>> # Undefined
      BY DEF Undefined
    <3>3. QED
      BY <3>1, <3>2 DEF BrokerOK, QueuesOK
  <2>2. QED
    BY <1>2, <2>1 DEF Reaches, workflowVariant, Exists
<1>3. QED
  BY <1>1, <1>2

\* A message stored where it may be leaves the broker in order.
LEMMA DeliverStep ==
    ASSUME IInv, NEW m \in Message, NEW c \in Class, NEW global \in BOOLEAN, NEW ACTION names,
           Deliver(m, c, global, names), UNCHANGED <<exchanges, bindings, listened>>,
           queues \subseteq queues', QueuesOK', \A q \in queues' : q.options \in Options,
           \A name \in names : /\ Exists(name)'
                               /\ name = QueueName(c) \/ \E f \in Fanout : name = QueueName(f)
    PROVE  /\ BrokerOK'
           /\ sent' \in [Message -> {Unsent} \cup [class : Class, global : BOOLEAN, status : Outcomes]]
<1>1. /\ stored' = [stored EXCEPT ![m] = names]
      /\ sent' = [sent EXCEPT ![m] = [class |-> c, global |-> global,
                     status |-> IF names = {} THEN "unheard" ELSE "accepted"]]
  BY DEF Deliver
<1>t. /\ sent \in [Message -> {Unsent} \cup [class : Class, global : BOOLEAN, status : Outcomes]]
      /\ stored = [n \in Message |-> stored[n]]
  BY DEF IInv, ProcessTypes, BrokerOK, BrokerTypes
<1>2. sent' \in [Message -> {Unsent} \cup [class : Class, global : BOOLEAN, status : Outcomes]]
  <2>1. (IF names = {} THEN "unheard" ELSE "accepted") \in Outcomes
    BY DEF Outcomes
  <2>2. QED
    BY <1>1, <1>t, <2>1
<1>3. /\ stored'[m] = names /\ sent'[m].class = c
      /\ \A n \in Message : n # m => stored'[n] = stored[n] /\ sent'[n] = sent[n]
      /\ stored' = [n \in Message |-> stored'[n]]
  BY <1>1, <1>t
<1>4. \A n : Exists(n) => Exists(n)'
  BY DEF Exists
<1>5. BrokerTypes'
  BY <1>3, <1>4 DEF IInv, BrokerOK, BrokerTypes
<1>6. BindingsOK' /\ ListenedOK'
  BY <1>4 DEF IInv, BrokerOK, BindingsOK, ListenedOK
<1>7. NoStray'
  BY <1>3 DEF IInv, BrokerOK, NoStray
<1>8. QED
  BY <1>2, <1>5, <1>6, <1>7 DEF BrokerOK

-----------------------------------------------------------------------------
(* Steps.                                                                  *)

\* A declaration adds a queue that may be declared.
LEMMA DeclareStep ==
    ASSUME BrokerOK, NEW name, NEW options \in Options, Declare(name, options),
           \/ \E c \in Class : name = QueueName(c) /\ options \in OptionsOf(c)
           \/ \E c \in Direct : name = <<"/amq/queue/", c>> /\ options = TemporaryOptions
    PROVE  /\ queues \subseteq queues' /\ QueuesOK' /\ Exists(name)'
           /\ \A q \in queues' : q.options \in Options
<1> DEFINE new == [name |-> name, options |-> options]
<1>1. queues' = queues \cup {new} /\ new.name = name /\ new.options = options
  BY DEF Declare
<1>2. ASSUME NEW q \in queues', q \notin queues PROVE q.name = name /\ q.options = options
  BY <1>1, <1>2
<1>3. QueuesOK'
  BY <1>2 DEF BrokerOK, QueuesOK
<1>4. \A q \in queues' : q.options \in Options
  BY <1>2 DEF BrokerOK, BrokerTypes
<1>5. Exists(name)'
  BY <1>1 DEF Exists
<1>6. QED
  BY <1>1, <1>3, <1>4, <1>5

\* A broker that only gains exchanges, queues, bindings and listeners stays in order.
LEMMA GrowStep ==
    ASSUME BrokerOK, queues \subseteq queues', QueuesOK', \A q \in queues' : q.options \in Options,
           exchanges \subseteq exchanges', exchanges' \subseteq {Exchange},
           \A b \in bindings' \ bindings :
               (\E c \in Routed : b = Binding(c)) /\ b[1] \in exchanges' /\ Exists(b[2])',
           \A c \in listened' \ listened : c \in Class /\ Exists(QueueName(c))',
           UNCHANGED <<stored, sent>>
    PROVE  BrokerOK'
<1>1. \A n : Exists(n) => Exists(n)'
  BY DEF Exists
<1>2. BindingsOK' /\ NoStray'
  BY DEF BrokerOK, BindingsOK, NoStray
<1>3. ListenedOK'
  BY <1>1 DEF BrokerOK, ListenedOK
<1>4. BrokerTypes'
  BY <1>1 DEF BrokerOK, BrokerTypes
<1>5. QED
  BY <1>2, <1>3, <1>4 DEF BrokerOK

\* A class that goes to a stage, when all that the stage says of it holds.
LEMMA GotoStep ==
    ASSUME ProcessTypes, StageOK, NEW c \in Class, NEW s \in Stages, Goto(c, s),
           process' \in {"up", "refused"}, UNCHANGED <<sent, losses>>,
           exchanges \subseteq exchanges', listened' \subseteq listened \cup {c},
           \A d \in Durable : Exists(QueueName(d)) => Exists(QueueName(d))',
           \A d \in Durable \cap Routed : Binding(d) \in bindings => Binding(d) \in bindings',
           s \in {"exchange", "queue", "bind"} => c \in Routed,
           s \in {"queue", "bind"} => Exchange \in exchanges',
           s = "temporary" => c \notin Durable,
           s = "refused" => c \in Routed \ Durable,
           c \in Durable /\ s = "bind" => Exists(QueueName(c))',
           c \in Durable \cap Routed /\ (s \in {"attach", "listening"} \/ c \in listened') =>
               Binding(c) \in bindings'
    PROVE  ProcessTypes' /\ StageOK'
<1>1. stage' = [stage EXCEPT ![c] = s] /\ stage \in [Class -> Stages]
  BY DEF Goto, ProcessTypes
<1>2. ProcessTypes'
  BY <1>1 DEF ProcessTypes
<1>3. stage'[c] = s /\ \A d \in Class : d # c => stage'[d] = stage[d]
  BY <1>1
<1>4. ASSUME NEW d \in Class
      PROVE  /\ stage'[d] \in {"exchange", "queue", "bind"} => d \in Routed
             /\ stage'[d] \in {"queue", "bind"} => Exchange \in exchanges'
             /\ stage'[d] = "temporary" => d \notin Durable
             /\ stage'[d] = "refused" => d \in Routed \ Durable
             /\ d \in Durable /\ stage'[d] = "bind" => Exists(QueueName(d))'
             /\ d \in Durable \cap Routed
                  /\ (stage'[d] \in {"attach", "listening"} \/ d \in listened') =>
                    Binding(d) \in bindings'
  <2>1. CASE d = c
    BY <1>3, <2>1
  <2>2. CASE d # c
    BY <1>3, <2>2 DEF StageOK
  <2>3. QED
    BY <2>1, <2>2
<1>5. StageOK'
  BY <1>4 DEF StageOK, Binding, QueueName, Exchange, BindingKey, workflowVariant
<1>6. QED
  BY <1>2, <1>5

\* A step that leaves the stages alone and takes nothing from the broker.
LEMMA StayStep ==
    ASSUME StageOK, queues \subseteq queues', UNCHANGED <<stage, exchanges, bindings, listened>>
    PROVE  StageOK'
<1>1. \A n : Exists(n) => Exists(n)'
  BY DEF Exists
<1>2. QED
  BY <1>1 DEF StageOK

\* Every stage of listen keeps the invariant.
LEMMA ListensInv ==
    ASSUME IInv, NEW c \in Class,
           AssertExchange(c) \/ AssertQueue(c) \/ BindQueue(c) \/ AssertTemporaryQueue(c) \/ Attach(c)
    PROVE  IInv'
<1> USE DEF IInv
<1>b. \A n : queues \subseteq queues' /\ Exists(n) => Exists(n)'
  BY DEF Exists
<1>s. stage[c] \in Stages
  BY DEF ProcessTypes
<1>e. \A q \in queues : q.options \in Options
  BY DEF BrokerOK, BrokerTypes
<1>1. CASE AssertExchange(c)
  <2>1. /\ At(c, "exchange") /\ exchanges' = exchanges \cup {Exchange} /\ Goto(c, "queue")
        /\ UNCHANGED <<process, queues, bindings, stored, sent, losses, listened>>
    BY <1>1 DEF AssertExchange
  <2>2. c \in Routed /\ (c \in listened /\ c \in Durable => Binding(c) \in bindings)
    BY <2>1 DEF At, StageOK
  <2>3. QueuesOK'
    BY <2>1 DEF BrokerOK, QueuesOK
  <2>4. BrokerOK'
    BY <2>1, <2>3, <1>e, GrowStep DEF BrokerOK, BrokerTypes
  <2>5. ProcessTypes' /\ StageOK'
    BY <2>1, <2>2, <1>b, GotoStep DEF At, Stages
  <2>6. QED
    BY <2>4, <2>5
<1>2. CASE AssertQueue(c)
  <2>1. /\ At(c, "queue") /\ Declare(QueueName(c), RoutedOptions(c)) /\ Goto(c, "bind")
        /\ UNCHANGED <<process, exchanges, bindings, stored, sent, losses, listened>>
    BY <1>2 DEF AssertQueue
  <2>2. /\ c \in Routed /\ Exchange \in exchanges
        /\ c \in listened /\ c \in Durable => Binding(c) \in bindings
    BY <2>1 DEF At, StageOK
  <2>3. RoutedOptions(c) \in Options /\ RoutedOptions(c) \in OptionsOf(c)
    <3>1. CASE c \in Durable
      <4>1. (c \in Durable) = TRUE
        BY <3>1
      <4>2. RoutedOptions(c) = [durable |-> TRUE, temporary |-> FALSE]
        BY <4>1 DEF RoutedOptions
      <4>3. QED
        BY <3>1, <4>2 DEF Options, OptionsOf
    <3>2. CASE c \notin Durable
      <4>1. RoutedOptions(c) \in OptionsOf(c)
        BY <2>2, <3>2, RoutingAssumption DEF OptionsOf
      <4>2. (c \in Durable) \in BOOLEAN
        OBVIOUS
      <4>3. RoutedOptions(c) \in Options
        BY <4>2 DEF RoutedOptions, Options
      <4>4. QED
        BY <4>1, <4>3
    <3>3. QED
      BY <3>1, <3>2
  <2>4. /\ queues \subseteq queues' /\ QueuesOK' /\ Exists(QueueName(c))'
        /\ \A q \in queues' : q.options \in Options
    BY <2>1, <2>3, DeclareStep
  <2>5. BrokerOK'
    BY <2>1, <2>4, GrowStep DEF BrokerOK, BrokerTypes
  <2>6. ProcessTypes' /\ StageOK'
    BY <2>1, <2>2, <2>4, <1>b, GotoStep DEF At, Stages
  <2>7. QED
    BY <2>5, <2>6
<1>3. CASE BindQueue(c)
  <2>1. /\ At(c, "bind") /\ Exists(QueueName(c)) /\ bindings' = bindings \cup {Binding(c)}
        /\ Goto(c, AfterBuild(c))
        /\ UNCHANGED <<process, exchanges, queues, stored, sent, losses, listened>>
    BY <1>3 DEF BindQueue, Binding
  <2>2. c \in Routed /\ Exchange \in exchanges
    BY <2>1 DEF At, StageOK
  <2>3. QueuesOK' /\ Exists(QueueName(c))'
    BY <2>1, <1>b DEF BrokerOK, QueuesOK
  <2>4. Binding(c)[1] = Exchange /\ Binding(c)[2] = QueueName(c)
    BY DEF Binding
  <2>5. BrokerOK'
    <3>1. \A b \in bindings' \ bindings :
              (\E d \in Routed : b = Binding(d)) /\ b[1] \in exchanges' /\ Exists(b[2])'
      BY <2>1, <2>2, <2>3, <2>4
    <3>2. QED
      BY <2>1, <2>3, <3>1, <1>e, GrowStep DEF BrokerOK, BrokerTypes
  <2>6. AfterBuild(c) \in {"temporary", "attach"} /\ (AfterBuild(c) = "temporary" => c \notin Durable)
    BY DEF AfterBuild, NeedsTemporary
  <2>7. ProcessTypes' /\ StageOK'
    BY <2>1, <2>2, <2>3, <2>6, <1>b, GotoStep DEF At, Stages
  <2>8. QED
    BY <2>5, <2>7
<1>4. CASE AssertTemporaryQueue(c)
  <2>1. /\ At(c, "temporary") /\ Declare(QueueName(c), TemporaryOptions) /\ Goto(c, "attach")
        /\ UNCHANGED <<process, exchanges, bindings, stored, sent, losses, listened>>
    BY <1>4 DEF AssertTemporaryQueue
  <2>2. c \notin Durable
    BY <2>1 DEF At, StageOK
  <2>3. TemporaryOptions \in Options /\ TemporaryOptions \in OptionsOf(c)
    BY <2>2 DEF TemporaryOptions, Options, OptionsOf
  <2>4. queues \subseteq queues' /\ QueuesOK' /\ \A q \in queues' : q.options \in Options
    BY <2>1, <2>3, DeclareStep
  <2>5. BrokerOK'
    BY <2>1, <2>4, GrowStep DEF BrokerOK, BrokerTypes
  <2>6. ProcessTypes' /\ StageOK'
    BY <2>1, <2>2, <2>4, <1>b, GotoStep DEF At, Stages
  <2>7. QED
    BY <2>5, <2>6
<1>5. CASE Attach(c)
  <2>1. /\ At(c, "attach") /\ Exists(QueueName(c)) /\ Goto(c, "listening")
        /\ listened' = listened \cup {c}
        /\ UNCHANGED <<process, exchanges, queues, bindings, stored, sent, losses>>
    BY <1>5 DEF Attach, broker
  <2>2. c \in Durable \cap Routed => Binding(c) \in bindings
    BY <2>1 DEF At, StageOK
  <2>3. QueuesOK' /\ Exists(QueueName(c))'
    BY <2>1, <1>b DEF BrokerOK, QueuesOK
  <2>4. BrokerOK'
    BY <2>1, <2>3, <1>e, GrowStep DEF BrokerOK, BrokerTypes
  <2>5. ProcessTypes' /\ StageOK'
    BY <2>1, <2>2, <1>b, GotoStep DEF At, Stages
  <2>6. QED
    BY <2>4, <2>5
<1>6. QED
  BY <1>1, <1>2, <1>3, <1>4, <1>5

\* What a loss deletes and where it leaves the process.
LEMMA LossInv ==
    ASSUME IInv, NEW STATE names, Delete(names), \A c \in Durable : QueueName(c) \notin names,
           ProcessTypes',
           \A c \in Class :
               /\ stage'[c] \in {"exchange", "queue", "bind"} => c \in Routed
               /\ stage'[c] \in {"queue", "bind"} => Exchange \in exchanges
               /\ stage'[c] = "temporary" => c \notin Durable
               /\ stage'[c] = "refused" => c \in Routed \ Durable
               /\ c \in Durable /\ stage'[c] = "bind" => Exists(QueueName(c))
               /\ c \in Durable \cap Routed /\ stage'[c] \in {"attach", "listening"} =>
                      stage[c] \in {"attach", "listening"}
    PROVE  IInv'
<1>1. /\ BrokerOK'
      /\ exchanges' = exchanges /\ listened' \subseteq listened
      /\ \A c \in Durable : Exists(QueueName(c)) => Exists(QueueName(c))'
      /\ \A c \in Durable \cap Routed : Binding(c) \in bindings => Binding(c) \in bindings'
  BY DeleteStep DEF IInv
<1>2. StageOK'
  <2>1. ASSUME NEW c \in Class
        PROVE  /\ stage'[c] \in {"exchange", "queue", "bind"} => c \in Routed
               /\ stage'[c] \in {"queue", "bind"} => Exchange \in exchanges'
               /\ stage'[c] = "temporary" => c \notin Durable
               /\ stage'[c] = "refused" => c \in Routed \ Durable
               /\ c \in Durable /\ stage'[c] = "bind" => Exists(QueueName(c))'
               /\ c \in Durable \cap Routed
                    /\ (stage'[c] \in {"attach", "listening"} \/ c \in listened') =>
                      Binding(c) \in bindings'
    BY <1>1 DEF IInv, StageOK
  <2>2. QED
    BY <2>1 DEF StageOK, Binding, QueueName, Exchange, BindingKey, workflowVariant
<1>3. QED
  BY <1>1, <1>2 DEF IInv

\* Lost connections, brokers and processes, and declarations refused.
LEMMA LossesInv ==
    ASSUME IInv, LinkLost \/ Crash \/ \E c \in Class : Refused(c)
    PROVE  IInv'
<1>a. \A c \in Durable : QueueName(c) \notin AutoDeleted /\ QueueName(c) \notin Volatile
  BY DurableStays DEF IInv, BrokerOK
<1>t. ProcessTypes /\ losses \in 0..MaxLosses /\ stage \in [Class -> Stages]
  BY DEF IInv, ProcessTypes
<1>s. \A c \in Class :
          /\ AfterBuild(c) \in {"temporary", "attach"} /\ Listen(c) \in {"exchange", "temporary", "attach"}
          /\ Listen(c) = "exchange" => c \in Routed
          /\ AfterBuild(c) = "temporary" => c \notin Durable
          /\ Listen(c) = "temporary" => c \notin Durable
          /\ Listen(c) = "attach" => c \notin Routed
  BY DEF AfterBuild, Listen, NeedsTemporary
<1>1. CASE LinkLost
  <2>1. PICK names \in {AutoDeleted, Volatile} :
            /\ losses < MaxLosses /\ losses' = losses + 1 /\ Delete(names)
            /\ stage' = [c \in Class |-> Reattached(c)] /\ process' = process
    BY <1>1 DEF LinkLost, Lose
  <2>2. \A c \in Durable : QueueName(c) \notin names
    BY <1>a
  <2>3. \A c \in Class : stage'[c] = Reattached(c) /\ Reattached(c) \in Stages
    BY <1>t, <1>s, <2>1 DEF Reattached, Stages
  <2>4. ProcessTypes'
    BY <1>t, <2>1, <2>3, LossAssumption DEF ProcessTypes, Delete
  <2>5. \A c \in Class :
            \/ Reattached(c) = stage[c] /\ stage[c] \notin {"attach", "listening"}
            \/ Reattached(c) = AfterBuild(c) /\ stage[c] \in {"attach", "listening"}
    BY DEF Reattached
  <2>6. QED
    BY <1>s, <2>1, <2>2, <2>3, <2>4, <2>5, LossInv DEF IInv, StageOK
<1>2. CASE Crash
  <2>1. /\ losses < MaxLosses /\ losses' = losses + 1 /\ Delete(AutoDeleted)
        /\ stage' = [c \in Class |-> Listen(c)] /\ process' = "down"
    BY <1>2 DEF Crash, Lose
  <2>2. \A c \in Class : stage'[c] = Listen(c) /\ Listen(c) \in Stages
    BY <1>s, <2>1 DEF Stages
  <2>3. ProcessTypes'
    BY <1>t, <2>1, <2>2, LossAssumption DEF ProcessTypes, Delete
  <2>4. QED
    BY <1>a, <1>s, <2>1, <2>2, <2>3, LossInv
<1>3. ASSUME NEW c \in Class, Refused(c) PROVE IInv'
  <2>1. /\ process' = "refused" /\ stage' = [stage EXCEPT ![c] = "refused"] /\ Delete(AutoDeleted)
        /\ losses' = losses
    BY <1>3 DEF Refused, Goto
  <2>2. ASSUME At(c, "queue") /\ ~Unrefused(QueueName(c), RoutedOptions(c))
        PROVE  c \in Routed \ Durable
    <3>1. c \in Routed
      BY <2>2 DEF At, IInv, StageOK
    <3>2. PICK q \in queues : q.name = QueueName(c) /\ q.options # RoutedOptions(c)
      BY <2>2 DEF Unrefused
    <3>3. q.options \in OptionsOf(c)
      BY <3>2, OwnOptions DEF IInv, BrokerOK
    <3>4. CASE c \in Durable
      <4>1. (c \in Durable) = TRUE
        BY <3>4
      <4>2. RoutedOptions(c) = [durable |-> TRUE, temporary |-> FALSE]
        BY <4>1 DEF RoutedOptions
      <4>3. QED
        BY <3>2, <3>3, <3>4, <4>2 DEF OptionsOf
    <3>5. QED
      BY <3>1, <3>4
  <2>3. ASSUME At(c, "bind") /\ ~Exists(QueueName(c))
        PROVE  c \in Routed \ Durable
    BY <2>3 DEF At, IInv, StageOK
  <2>4. ASSUME At(c, "temporary") /\ ~Unrefused(QueueName(c), TemporaryOptions)
        PROVE  c \in Routed \ Durable
    <3>1. c \notin Durable
      BY <2>4 DEF At, IInv, StageOK
    <3>2. PICK q \in queues : q.name = QueueName(c) /\ q.options # TemporaryOptions
      BY <2>4 DEF Unrefused
    <3>3. q.options \in OptionsOf(c)
      BY <3>2, OwnOptions DEF IInv, BrokerOK
    <3>4. QED
      BY <3>1, <3>2, <3>3 DEF OptionsOf, Class, Routed
  <2>5. c \in Routed \ Durable
    BY <1>3, <2>2, <2>3, <2>4 DEF Refused
  <2>6. ProcessTypes'
    BY <1>t, <2>1 DEF ProcessTypes, Delete, Stages
  <2>7. stage'[c] = "refused" /\ \A d \in Class : d # c => stage'[d] = stage[d]
    BY <1>t, <2>1
  <2>8. ASSUME NEW d \in Class
        PROVE  /\ stage'[d] \in {"exchange", "queue", "bind"} => d \in Routed
               /\ stage'[d] \in {"queue", "bind"} => Exchange \in exchanges
               /\ stage'[d] = "temporary" => d \notin Durable
               /\ stage'[d] = "refused" => d \in Routed \ Durable
               /\ d \in Durable /\ stage'[d] = "bind" => Exists(QueueName(d))
               /\ d \in Durable \cap Routed /\ stage'[d] \in {"attach", "listening"} =>
                      stage[d] \in {"attach", "listening"}
    <3>1. CASE d = c
      BY <2>5, <2>7, <3>1
    <3>2. CASE d # c
      BY <2>7, <3>2 DEF IInv, StageOK
    <3>3. QED
      BY <3>1, <3>2
  <2>9. QED
    BY <1>a, <2>1, <2>6, <2>8, LossInv
<1>4. QED
  BY <1>1, <1>2, <1>3

\* What is received and sent, and the start of the process.
LEMMA MessagesInv ==
    ASSUME IInv,
           \/ \E c \in Class, m \in Message :
                  \/ Receive(c, m) \/ EnqueueUnaddressed(m, c) \/ SendTemporary(m, c)
                  \/ \E global \in BOOLEAN : Enqueue(m, c, global)
           \/ Start
    PROVE  IInv'
<1>t. BrokerOK /\ BrokerTypes /\ QueuesOK /\ ProcessTypes /\ StageOK
  BY DEF IInv, BrokerOK
<1>e. \A q \in queues : q.options \in Options
  BY <1>t DEF BrokerTypes
<1>1. ASSUME NEW c \in Class, NEW m \in Message, Receive(c, m) PROVE IInv'
  <2>1. /\ stored' = [stored EXCEPT ![m] = @ \ {QueueName(c)}]
        /\ UNCHANGED <<process, stage, exchanges, queues, bindings, sent, losses, listened>>
    BY <1>1 DEF Receive
  <2>2. stored = [n \in Message |-> stored[n]]
    BY <1>t DEF BrokerTypes
  <2>3. \A n \in Message : stored'[n] \subseteq stored[n]
    BY <2>1, <2>2
  <2>4. stored' = [n \in Message |-> stored'[n]]
    BY <2>1, <2>2
  <2>5. NoStray'
    BY <1>t, <2>1, <2>3 DEF BrokerOK, NoStray
  <2>6. BrokerTypes'
    BY <1>t, <2>1, <2>3, <2>4 DEF BrokerTypes, Exists
  <2>7. QueuesOK' /\ BindingsOK' /\ ListenedOK'
    BY <1>t, <2>1 DEF BrokerOK, QueuesOK, BindingsOK, ListenedOK, Exists
  <2>8. ProcessTypes' /\ StageOK'
    BY <1>t, <2>1 DEF ProcessTypes, StageOK, Exists
  <2>9. QED
    BY <2>5, <2>6, <2>7, <2>8 DEF IInv, BrokerOK
<1>2. ASSUME NEW c \in Class, NEW m \in Message, NEW global \in BOOLEAN, NEW STATE names,
             Deliver(m, c, global, names), \A name \in names :
                 Exists(name) /\ (name = QueueName(c) \/ \E f \in Fanout : name = QueueName(f)),
             UNCHANGED <<process, stage, exchanges, queues, bindings, losses, listened>>
      PROVE  IInv'
  <2>1. \A name \in names : Exists(name)'
    BY <1>2 DEF Exists
  <2>2. QueuesOK' /\ \A q \in queues' : q.options \in Options
    BY <1>t, <1>e, <1>2 DEF QueuesOK
  <2>3. BrokerOK' /\ sent' \in [Message -> {Unsent} \cup [class : Class, global : BOOLEAN, status : Outcomes]]
    BY <1>2, <2>1, <2>2, DeliverStep
  <2>4. StageOK'
    BY <1>t, <1>2, StayStep
  <2>5. ProcessTypes'
    BY <1>t, <1>2, <2>3 DEF ProcessTypes
  <2>6. QED
    BY <2>3, <2>4, <2>5 DEF IInv
<1>3. ASSUME NEW c \in Class, NEW m \in Message, NEW global \in BOOLEAN, Enqueue(m, c, global)
      PROVE  IInv'
  <2>1. /\ Deliver(m, c, global, Reaches(c, IF c \in Routed THEN Exchange ELSE <<c>>, global))
        /\ UNCHANGED <<process, stage, exchanges, queues, bindings, losses, listened>>
    BY <1>3 DEF Enqueue
  <2>2. \A name \in Reaches(c, IF c \in Routed THEN Exchange ELSE <<c>>, global) :
            Exists(name) /\ (name = QueueName(c) \/ \E f \in Fanout : name = QueueName(f))
    BY <1>t, ReachesOwn
  <2>3. QED
    BY <1>2, <2>1, <2>2
<1>4. ASSUME NEW c \in Class, NEW m \in Message, EnqueueUnaddressed(m, c) PROVE IInv'
  <2>1. /\ Deliver(m, c, TRUE, Reaches(c, Undefined, FALSE))
        /\ UNCHANGED <<process, stage, exchanges, queues, bindings, losses, listened>>
    BY <1>4 DEF EnqueueUnaddressed
  <2>2. Reaches(c, Undefined, FALSE) = {}
    BY <1>t, ReachesNothing
  <2>3. QED
    BY <1>2, <2>1, <2>2
<1>5. ASSUME NEW c \in Class, NEW m \in Message, SendTemporary(m, c) PROVE IInv'
  <2> DEFINE names == {name \in {Target(c)} : \E q \in queues' : q.name = name}
  <2>1. /\ c \in Direct /\ Declare(<<"/amq/queue/", c>>, TemporaryOptions)
        /\ Deliver(m, c, FALSE, names)
        /\ UNCHANGED <<process, stage, exchanges, bindings, losses, listened>>
    BY <1>5 DEF SendTemporary
  <2>2. TemporaryOptions \in Options
    BY DEF TemporaryOptions, Options
  <2>3. queues \subseteq queues' /\ QueuesOK' /\ \A q \in queues' : q.options \in Options
    BY <1>t, <2>1, <2>2, DeclareStep
  <2>4. ASSUME NEW name \in names PROVE Exists(name)' /\ name = QueueName(c)
    BY <2>1, DirectName DEF Target, Exists
  <2>5. BrokerOK' /\ sent' \in [Message -> {Unsent} \cup [class : Class, global : BOOLEAN, status : Outcomes]]
    <3>1. Deliver(m, c, FALSE, names) /\ UNCHANGED <<exchanges, bindings, listened>>
      BY <2>1
    <3>2. \A name \in names : Exists(name)' /\ name = QueueName(c)
      BY <2>4
    <3>3. FALSE \in BOOLEAN
      OBVIOUS
    <3> HIDE DEF names
    <3>4. QED
      BY <2>3, <3>1, <3>2, <3>3, DeliverStep
  <2>6. StageOK'
    BY <1>t, <2>1, <2>3, StayStep
  <2>7. ProcessTypes'
    BY <1>t, <2>1, <2>5 DEF ProcessTypes
  <2>8. QED
    BY <2>5, <2>6, <2>7 DEF IInv
<1>6. CASE Start
  <2>1. /\ process' = "up" /\ stage' = [c \in Class |-> Listen(c)]
        /\ UNCHANGED <<exchanges, queues, bindings, stored, sent, losses, listened>>
    BY <1>6 DEF Start, broker
  <2>2. \A c \in Class :
            /\ stage'[c] = Listen(c) /\ Listen(c) \in {"exchange", "temporary", "attach"}
            /\ Listen(c) = "exchange" => c \in Routed
            /\ Listen(c) = "temporary" => c \notin Durable
            /\ Listen(c) = "attach" => c \notin Routed
    BY <2>1 DEF Listen, AfterBuild, NeedsTemporary
  <2>3. StageOK'
    BY <1>t, <2>1, <2>2 DEF StageOK, Exists
  <2>4. ProcessTypes'
    BY <1>t, <2>1, <2>2 DEF ProcessTypes, Stages
  <2>5. BrokerOK'
    BY <1>t, <2>1 DEF BrokerOK, BrokerTypes, QueuesOK, BindingsOK, ListenedOK, NoStray, Exists
  <2>6. QED
    BY <2>3, <2>4, <2>5 DEF IInv
<1>7. QED
  BY <1>1, <1>3, <1>4, <1>5, <1>6

\* A receiver refused leaves broker and stages as they are.
LEMMA RefusedReceiverInv ==
    ASSUME IInv, NEW c \in Class, AttachRefused(c)
    PROVE  IInv'
<1>1. UNCHANGED <<process, stage, exchanges, queues, bindings, stored, sent, losses, listened>>
  BY DEF AttachRefused, broker
<1>2. BrokerOK'
  BY <1>1 DEF IInv, BrokerOK, BrokerTypes, QueuesOK, BindingsOK, ListenedOK, NoStray, Exists
<1>3. ProcessTypes' /\ StageOK'
  BY <1>1 DEF IInv, ProcessTypes, StageOK, Exists
<1>4. QED
  BY <1>2, <1>3 DEF IInv

\* Every step keeps the invariant.
LEMMA NextInv == IInv /\ [Next]_vars => IInv'
<1> SUFFICES ASSUME IInv, [Next]_vars PROVE IInv'
  OBVIOUS
<1>1. ASSUME NEW c \in Class, Listens(c) PROVE IInv'
  BY <1>1, ListensInv, LossesInv DEF Listens
<1>2. CASE Next
  BY <1>1, <1>2, LossesInv, MessagesInv, RefusedReceiverInv DEF Next
<1>3. CASE UNCHANGED vars
  <2>1. UNCHANGED <<process, stage, exchanges, queues, bindings, stored, sent, losses, listened>>
    BY <1>3 DEF vars, broker
  <2>2. BrokerOK'
    BY <2>1 DEF IInv, BrokerOK, BrokerTypes, QueuesOK, BindingsOK, ListenedOK, NoStray, Exists
  <2>3. ProcessTypes' /\ StageOK'
    BY <2>1 DEF IInv, ProcessTypes, StageOK, Exists
  <2>4. QED
    BY <2>2, <2>3 DEF IInv
<1>4. QED
  BY <1>2, <1>3

\* The invariant holds for ever.
LEMMA Invariant == Spec => []IInv
BY InitInv, NextInv, PTL DEF Spec

\* Attaching, being refused and losing the connection take a receiver from one of the four
\* to another; a process starts with new ones.
LEMMA ReceiverStep ==
    ASSUME ReceiverOK, [Next]_vars
    PROVE  ReceiverOK'
<1>1. Fresh \in [Class -> Receivers]
  BY DEF Fresh, Receivers
<1>2. ASSUME NEW c \in Class, Attach(c) PROVE ReceiverOK'
  BY <1>2 DEF Attach, ReceiverOK, Receivers
<1>3. ASSUME NEW c \in Class, AttachRefused(c) PROVE ReceiverOK'
  BY <1>3 DEF AttachRefused, ReceiverOK, Receivers
<1>4. CASE LinkLost
  <2>1. receiver' = [c \in Class |-> AfterLoss(c)]
    BY <1>4 DEF LinkLost
  <2>2. ASSUME NEW c \in Class PROVE AfterLoss(c) \in Receivers
    <3>1. receiver[c] \in Receivers
      BY DEF ReceiverOK
    <3>2. QED
      BY <3>1 DEF AfterLoss, Receivers
  <2>3. QED
    BY <2>1, <2>2 DEF ReceiverOK
<1>5. CASE Crash \/ Start
  BY <1>1, <1>5 DEF Crash, Start, ReceiverOK
<1>6. ASSUME UNCHANGED receiver PROVE ReceiverOK'
  BY <1>6 DEF ReceiverOK
<1>7. ASSUME NEW c \in Class, Listens(c) PROVE Attach(c) \/ UNCHANGED receiver
  BY <1>7 DEF Listens, AssertExchange, AssertQueue, BindQueue, AssertTemporaryQueue, Refused
<1>8. ASSUME NEW c \in Class, NEW m \in Message,
             \/ Receive(c, m) \/ EnqueueUnaddressed(m, c) \/ SendTemporary(m, c)
             \/ \E global \in BOOLEAN : Enqueue(m, c, global)
      PROVE  UNCHANGED receiver
  BY <1>8 DEF Receive, EnqueueUnaddressed, SendTemporary, Enqueue
<1>9. CASE UNCHANGED vars
  BY <1>6, <1>9 DEF vars
<1>10. QED
  BY <1>2, <1>3, <1>4, <1>5, <1>6, <1>7, <1>8, <1>9 DEF Next

\* Every class's receiver is one of the four for ever.
LEMMA ReceiverTypes == Spec => []ReceiverOK
<1>1. Init => ReceiverOK
  BY DEF Init, Fresh, Receivers, ReceiverOK
<1>2. ReceiverOK /\ [Next]_vars => ReceiverOK'
  BY ReceiverStep
<1>3. QED
  BY <1>1, <1>2, PTL DEF Spec

-----------------------------------------------------------------------------
(* Theorems.                                                               *)

\* Every reachable state is well typed: no binding without its exchange and queue, no
\* message in a queue that is gone.
THEOREM TypeCorrect == Spec => []TypeOK
BY Invariant, ReceiverTypes, Types, PTL

\* Messages are stored only in queues of those they are for.
THEOREM NoStrays == Spec => []NoStray
<1>1. IInv => NoStray
  BY DEF IInv, BrokerOK
<1>2. QED
  BY Invariant, <1>1, PTL

\* Only the classes that declare a queue in two ways are ever refused.
THEOREM OnlyTwiceDeclaredRefused == Spec => []RefusedOnlyRoutedTemporary
<1>1. IInv => RefusedOnlyRoutedTemporary
  BY DEF IInv, StageOK, RefusedOnlyRoutedTemporary
<1>2. QED
  BY Invariant, <1>1, PTL

\* A message addressed to a class that has come to listen reaches its queue.
LEMMA ReachesListener ==
    ASSUME IInv, NEW c \in listened, c \in Durable \cup Direct
    PROVE  QueueName(c) \in Reaches(c, IF c \in Routed THEN Exchange ELSE <<c>>, FALSE)
<1>1. c \in Class /\ Exists(QueueName(c))
  BY DEF IInv, BrokerOK, BrokerTypes, ListenedOK
<1>2. CASE c \in Routed
  <2>1. Binding(c) \in bindings
    BY <1>1, <1>2, RoutingAssumption DEF IInv, StageOK
  <2>2. /\ Binding(c)[1] = Exchange /\ Binding(c)[2] = QueueName(c)
        /\ Binding(c)[3] \in {<<"#">>, RoutingKey(c, FALSE)}
    BY DEF Binding, BindingKey, RoutingKey, workflowVariant
  <2>3. QueueName(c) \in Bound(Exchange, RoutingKey(c, FALSE))
    BY <2>1, <2>2 DEF Bound
  <2>4. QED
    BY <1>2, <2>3 DEF Reaches, workflowVariant
<1>3. CASE c \notin Routed
  <2>1. QueueName(c) = <<c>>
    BY <1>3 DEF QueueName
  <2>2. QED
    BY <1>1, <1>3, <2>1 DEF Reaches, workflowVariant
<1>4. QED
  BY <1>2, <1>3

\* Listeners and senders agree on the names: what is enqueued to a class that listens,
\* or has a durable queue and once did, is not left unheard.
THEOREM ListenersReached == Spec => ListenerReached
<1> DEFINE Heard(m) == /\ sent[m] = Unsent /\ sent'[m].status = "unheard"
                       /\ ~sent'[m].global /\ sent'[m].class \in Durable \cup Direct
                       => sent'[m].class \notin listened
<1>d. ASSUME IInv, NEW m \in Message, NEW n \in Message, NEW c \in Class, NEW global \in BOOLEAN,
             NEW ACTION names, Deliver(n, c, global, names),
             ~global /\ c \in listened /\ c \in Durable \cup Direct => names # {}
      PROVE  Heard(m)
  <2>1. /\ sent' = [sent EXCEPT ![n] = [class |-> c, global |-> global,
                       status |-> IF names = {} THEN "unheard" ELSE "accepted"]]
        /\ sent \in [Message -> {Unsent} \cup [class : Class, global : BOOLEAN, status : Outcomes]]
    BY <1>d DEF Deliver, IInv, ProcessTypes
  <2>2. CASE m = n
    <3>1. /\ sent'[m].class = c /\ sent'[m].global = global
          /\ sent'[m].status = IF names = {} THEN "unheard" ELSE "accepted"
      BY <2>1, <2>2
    <3>2. QED
      BY <1>d, <3>1
  <2>3. CASE m # n
    <3>1. sent'[m] = sent[m]
      BY <2>1, <2>3
    <3>2. sent[m] = Unsent => sent[m].status # "unheard"
      BY DEF Unsent
    <3>3. QED
      BY <3>1, <3>2
  <2>4. QED
    BY <2>2, <2>3
<1>s. ASSUME NEW m \in Message, sent' = sent PROVE Heard(m)
  <2>1. sent[m] = Unsent => sent[m].status # "unheard"
    BY DEF Unsent
  <2>2. QED
    BY <1>s, <2>1
<1>1. ASSUME IInv, [Next]_vars, NEW m \in Message PROVE Heard(m)
  <2> HIDE DEF Heard
  <2>1. ASSUME NEW n \in Message, NEW c \in Class, NEW global \in BOOLEAN, Enqueue(n, c, global)
        PROVE  Heard(m)
    <3>1. Deliver(n, c, global, Reaches(c, IF c \in Routed THEN Exchange ELSE <<c>>, global))
      BY <2>1 DEF Enqueue
    <3>2. ~global => global = FALSE
      OBVIOUS
    <3>3. ~global /\ c \in listened /\ c \in Durable \cup Direct =>
              Reaches(c, IF c \in Routed THEN Exchange ELSE <<c>>, global) # {}
      BY <1>1, <3>2, ReachesListener
    <3>4. QED
      BY <1>1, <1>d, <3>1, <3>3
  <2>2. ASSUME NEW n \in Message, NEW c \in Class, EnqueueUnaddressed(n, c) PROVE Heard(m)
    <3>1. Deliver(n, c, TRUE, Reaches(c, Undefined, FALSE))
      BY <2>2 DEF EnqueueUnaddressed
    <3>2. QED
      BY <1>1, <1>d, <3>1
  <2>3. ASSUME NEW n \in Message, NEW c \in Class, SendTemporary(n, c) PROVE Heard(m)
    <3> DEFINE names == {name \in {Target(c)} : \E q \in queues' : q.name = name}
    <3>1. c \in Direct /\ queues \subseteq queues' /\ Deliver(n, c, FALSE, names)
      BY <2>3 DEF SendTemporary, Declare
    <3>2. c \in listened => names # {}
      <4>1. ASSUME c \in listened PROVE \E q \in queues : q.name = <<c>>
        BY <1>1, <4>1, <3>1, DirectName DEF IInv, BrokerOK, ListenedOK, Exists
      <4>2. QED
        BY <3>1, <4>1 DEF Target
    <3> HIDE DEF names
    <3>3. QED
      BY <1>1, <1>d, <3>1, <3>2
  <2>4. CASE Next /\ sent' = sent
    BY <1>s, <2>4
  <2>5. CASE UNCHANGED vars
    BY <1>s, <2>5 DEF vars
  <2>6. Next => \/ sent' = sent
                \/ \E n \in Message, c \in Class :
                       \/ EnqueueUnaddressed(n, c) \/ SendTemporary(n, c)
                       \/ \E global \in BOOLEAN : Enqueue(n, c, global)
    <3>1. \A c \in Class : Listens(c) => sent' = sent
      BY DEF Listens, AssertExchange, AssertQueue, BindQueue, AssertTemporaryQueue, Attach,
             Refused, Delete
    <3>2. \A c \in Class :
              (AttachRefused(c) \/ \E n \in Message : Receive(c, n)) => sent' = sent
      BY DEF AttachRefused, Receive
    <3>3. LinkLost \/ Crash \/ Start => sent' = sent
      BY DEF LinkLost, Crash, Start, Lose, Delete
    <3>4. QED
      BY <3>1, <3>2, <3>3 DEF Next
  <2>7. QED
    BY <1>1, <2>1, <2>2, <2>3, <2>4, <2>5, <2>6
<1>2. IInv /\ [Next]_vars => [\A m \in Message : Heard(m)]_vars
  BY <1>1
<1>3. QED
  BY Invariant, <1>2, PTL DEF Spec, ListenerReached
=============================================================================
