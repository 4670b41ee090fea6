------------------------------- MODULE Prompts -------------------------------
(***************************************************************************)
(* The terminal prompts (internal/cli: prompt.go, completion.go): a caller *)
(* that asks one question after the other, the event loop that owns the    *)
(* prompt on screen, the keys of the user, who may type ahead, and the     *)
(* worker that completes directory names.                                  *)
(*                                                                         *)
(* Choices are numbers; a text is a sequence of letters.  Odd questions    *)
(* select guides, even ones ask for a directory.                           *)
(***************************************************************************)
EXTENDS Naturals, Sequences, SequencesExt, FiniteSets, FiniteSetsExt

CONSTANTS Questions,   \* questions the caller has
          Offered, Disabled,  \* choices of a selection
          Keys,        \* keys the user may press
          MaxKeys,     \* bound on the keys pressed
          MaxPending   \* keys kept between two questions (256 in the code)

VARIABLES
  caller,     \* "ready", "asking", "waiting", "failed", "closing", "closed"
  asked,      \* questions asked
  loop,       \* the program: "none", "running", "ended"
  prompt,     \* the active prompt, of kind "none" without one
  response,   \* response channel: <<>> or one result
  pending,    \* keys typed between questions
  pendingErr, \* more than MaxPending were
  pressed,    \* all keys pressed
  used,       \* keys that reached a prompt
  replies,    \* results the caller got
  promptCut,  \* the context has ended
  starting,   \* Init's command, not yet run: the requests it will enqueue
  requests,   \* the service's channel, of one
  lastOrder,  \* newest prompt and generation enqueued
  completer,  \* "idle", "debounce", "resolve", "send", "stopped"
  request     \* the request the worker holds

promptVars == <<caller, asked, loop, prompt, response, pending, pendingErr, pressed, used, replies,
                promptCut, starting, requests, lastOrder, completer, request>>
service == <<starting, requests, lastOrder, completer, request>>

Enabled == Offered \ Disabled
NoPrompt == [kind |-> "none", id |-> 0, cursor |-> 0, ticked |-> {}, text |-> <<>>, generation |-> 0,
             menu |-> <<>>, index |-> 0, base |-> <<>>, prefix |-> FALSE, loading |-> FALSE]
NewSelect == [NoPrompt EXCEPT !.kind = "select", !.id = asked, !.cursor = Min(Enabled)]
NewInput == [NoPrompt EXCEPT !.kind = "input", !.id = asked, !.text = <<"initial">>, !.loading = TRUE]
NewPrompt == IF asked % 2 = 1 THEN NewSelect ELSE NewInput
AllowBack == asked > 1

-----------------------------------------------------------------------------
(* What a key does: selectPrompt.Update, inputPrompt.Update.               *)

NextEnabled(c) == IF \E d \in Enabled : d > c THEN Min({d \in Enabled : d > c}) ELSE Min(Enabled)

\* cycleCompletion: past the last suggestion the text typed comes back.
Cycle(p) ==
  IF p.index < Len(p.menu) THEN [p EXCEPT !.index = @ + 1, !.text = p.menu[p.index + 1]]
  ELSE [p EXCEPT !.index = 0, !.text = p.base]

\* restartCompletion: a new generation, without suggestions.
Restart(p, prefix) == [p EXCEPT !.generation = @ + 1, !.menu = <<>>, !.index = 0, !.base = p.text,
                                !.prefix = prefix, !.loading = TRUE]
Restarts(p, key) == p.kind = "input" /\ (key \in {"char", "space"} \/ (key = "tab" /\ p.menu = <<>>))

PressSelect(p, key) ==
  CASE key = "down"  -> [p EXCEPT !.cursor = NextEnabled(@)]
    [] key = "space" -> [p EXCEPT !.ticked = IF p.cursor \in @ THEN @ \ {p.cursor} ELSE @ \cup {p.cursor}]
    [] OTHER         -> p
PressInput(p, key) ==
  CASE key \in {"char", "space"} -> Restart([p EXCEPT !.text = Append(@, key)], FALSE)
    [] key = "tab" /\ p.menu = <<>> -> Restart(p, TRUE)
    [] key \in {"tab", "down"} /\ p.menu # <<>> -> Cycle(p)
    [] key = "enter" -> [p EXCEPT !.menu = <<>>, !.index = 0, !.prefix = FALSE]
    [] OTHER         -> p
Press(p, key) == IF p.kind = "select" THEN PressSelect(p, key) ELSE PressInput(p, key)

Ends(p, key) ==
  CASE key = "esc"                    -> "cancel"
    [] key = "left" /\ AllowBack      -> "back"
    [] key = "enter" /\ p.kind = "select" /\ p.ticked # {} -> "answer"
    [] key = "enter" /\ p.kind = "input" /\ p.menu = <<>>  -> "answer"
    [] OTHER                          -> "none"

-----------------------------------------------------------------------------
(* The completion service.                                                 *)

Order(r) == <<r.id, r.generation>>
NotOlder(a, b) == a[1] > b[1] \/ (a[1] = b[1] /\ a[2] >= b[2])
Request(p) == [id |-> p.id, generation |-> p.generation, text |-> p.text]

\* enqueue: the newest request replaces one that waits; an older one is dropped.
Enqueue(r) == IF NotOlder(Order(r), lastOrder) /\ completer # "stopped"
              THEN requests' = <<r>> /\ lastOrder' = Order(r)
              ELSE UNCHANGED <<requests, lastOrder>>

\* Init's command runs on a goroutine of its own, maybe after newer requests.
RunCommand == /\ starting # <<>>
              /\ Enqueue(Head(starting)) /\ starting' = Tail(starting)
              /\ UNCHANGED <<caller, asked, loop, prompt, response, pending, pendingErr, pressed, used,
                             replies, promptCut, completer, request>>

CompleterStep ==
  /\ \/ /\ completer \in {"idle", "debounce"} /\ requests # <<>>   \* restarts the timer
        /\ request' = requests /\ requests' = <<>> /\ completer' = "debounce"
     \/ completer = "debounce" /\ completer' = "resolve" /\ UNCHANGED <<requests, request>>
     \/ completer = "resolve" /\ completer' = "send" /\ UNCHANGED <<requests, request>>
  /\ UNCHANGED <<caller, asked, loop, prompt, response, pending, pendingErr, pressed, used, replies,
                 promptCut, starting, lastOrder>>

\* The result of a request is shown only while the prompt still has that text.
AnyPrompt(p, r) == p.kind = "input"
Current(p, r) == p.kind = "input" /\ Request(p) = r
Suggestions(text) == {<<>>, <<Append(text, "x")>>, <<Append(text, "x"), Append(text, "y")>>}

\* With Tab, the letters that all suggestions share are added to the text.
Shown(p, r, menu, truncated) ==
  IF ~p.prefix \/ Len(menu) # 1
  THEN [p EXCEPT !.menu = menu, !.index = 0, !.base = r.text, !.prefix = FALSE, !.loading = FALSE]
  ELSE [p EXCEPT !.text = menu[1], !.base = menu[1], !.index = 0, !.prefix = FALSE, !.loading = FALSE,
                 !.menu = IF truncated THEN menu ELSE <<>>]

\* send blocks until the event loop takes the result, or has ended.
SendResult ==
  /\ completer = "send"
  /\ \/ /\ loop = "running" /\ (prompt.kind = "none" \/ pending = <<>>)
        /\ \E menu \in Suggestions(request[1].text), truncated \in BOOLEAN :
             prompt' = IF Current(prompt, request[1]) THEN Shown(prompt, request[1], menu, truncated) ELSE prompt
     \/ loop = "ended" /\ UNCHANGED prompt
  /\ completer' = "idle" /\ request' = <<>>
  /\ UNCHANGED <<caller, asked, loop, response, pending, pendingErr, pressed, used, replies, promptCut,
                 starting, requests, lastOrder>>

-----------------------------------------------------------------------------
(* The event loop.                                                         *)

\* applyActive: a key goes to the prompt; a result leaves on its channel.
Apply(key) ==
  /\ used' = Append(used, key)
  /\ IF Ends(prompt, key) = "none"
     THEN /\ prompt' = Press(prompt, key) /\ UNCHANGED response
          /\ IF Restarts(prompt, key) THEN Enqueue(Request(Press(prompt, key)))
             ELSE UNCHANGED <<requests, lastOrder>>
     ELSE /\ response' = <<[how |-> Ends(prompt, key), ticked |-> prompt.ticked, text |-> prompt.text]>>
          /\ prompt' = NoPrompt /\ UNCHANGED <<requests, lastOrder>>

TakeRequest ==
  /\ loop = "running" /\ caller = "asking" /\ caller' = "waiting"
  /\ IF pendingErr
     THEN response' = <<[how |-> "error", ticked |-> {}, text |-> <<>>]>> /\ UNCHANGED <<prompt, starting>>
     ELSE /\ prompt' = NewPrompt /\ UNCHANGED response
          /\ starting' = IF NewPrompt.kind = "input" THEN Append(starting, Request(NewPrompt)) ELSE starting
  /\ UNCHANGED <<asked, loop, pending, pendingErr, pressed, used, replies, promptCut, requests, lastOrder,
                 completer, request>>

\* The keys typed ahead go first, until the prompt is answered.
KeepsRest == pending' = Tail(pending)
Replay ==
  /\ loop = "running" /\ prompt.kind # "none" /\ pending # <<>>
  /\ Apply(Head(pending)) /\ KeepsRest
  /\ UNCHANGED <<caller, asked, loop, pendingErr, pressed, replies, promptCut, starting, completer, request>>

PressKey ==
  /\ loop = "running" /\ Len(pressed) < MaxKeys
  /\ \E key \in Keys :
       /\ pressed' = Append(pressed, key)
       /\ \/ /\ prompt.kind # "none" /\ pending = <<>>
             /\ Apply(key) /\ UNCHANGED <<pending, pendingErr>>
          \/ /\ prompt.kind = "none" /\ UNCHANGED <<prompt, response, used, requests, lastOrder>>
             /\ IF Len(pending) >= MaxPending THEN pending' = <<>> /\ pendingErr' = TRUE
                ELSE pending' = Append(pending, key) /\ UNCHANGED pendingErr
  /\ UNCHANGED <<caller, asked, loop, replies, promptCut, starting, completer, request>>

\* The context ends, or the input does: the program returns.
CutPrompts == /\ ~promptCut /\ caller # "closed" /\ promptCut' = TRUE
              /\ UNCHANGED <<caller, asked, loop, prompt, response, pending, pendingErr, pressed, used,
                             replies, service>>
EndLoop == /\ loop = "running" /\ promptCut /\ (prompt.kind = "none" \/ pending = <<>>) /\ loop' = "ended"
           /\ UNCHANGED <<caller, asked, prompt, response, pending, pendingErr, pressed, used, replies,
                          promptCut, service>>

-----------------------------------------------------------------------------
(* The caller.                                                             *)

Ask == /\ caller = "ready" /\ asked < Questions
       /\ asked' = asked + 1 /\ caller' = "asking" /\ response' = <<>>
       /\ IF loop = "none" THEN loop' = "running" /\ completer' = "idle" ELSE UNCHANGED <<loop, completer>>
       /\ UNCHANGED <<prompt, pending, pendingErr, pressed, used, replies, promptCut, starting, requests,
                      lastOrder, request>>

\* request returns with the first that is ready: result, end of program, end of context.
Return ==
  /\ \/ /\ caller = "waiting" /\ response # <<>>
        /\ replies' = Append(replies, response[1])
        /\ caller' = IF response[1].how \in {"answer", "back"} THEN "ready" ELSE "failed"
     \/ /\ caller \in {"asking", "waiting"} /\ (loop = "ended" \/ promptCut)
        /\ caller' = "failed" /\ UNCHANGED replies
  /\ UNCHANGED <<asked, loop, prompt, response, pending, pendingErr, pressed, used, promptCut, service>>

\* Close stops the worker, then the program; a worker in send comes back first.
StartClose == /\ caller = "failed" \/ (caller = "ready" /\ asked = Questions)
              /\ caller' = "closing"
              /\ UNCHANGED <<asked, loop, prompt, response, pending, pendingErr, pressed, used, replies,
                             promptCut, service>>
StopWorker == /\ caller \in {"closing", "closed"} /\ completer \notin {"send", "stopped"}
              /\ completer' = "stopped" /\ request' = <<>>
              /\ UNCHANGED <<caller, asked, loop, prompt, response, pending, pendingErr, pressed, used,
                             replies, promptCut, starting, requests, lastOrder>>
StopLoop == /\ caller = "closing"
            /\ loop' = (IF loop = "none" THEN "none" ELSE "ended") /\ caller' = "closed"
            /\ UNCHANGED <<asked, prompt, response, pending, pendingErr, pressed, used, replies, promptCut,
                           service>>

Init == /\ caller = "ready" /\ asked = 0 /\ loop = "none" /\ prompt = NoPrompt /\ response = <<>>
        /\ pending = <<>> /\ pendingErr = FALSE /\ pressed = <<>> /\ used = <<>> /\ replies = <<>>
        /\ promptCut = FALSE /\ starting = <<>> /\ requests = <<>> /\ lastOrder = <<0, 0>>
        /\ completer = "stopped" /\ request = <<>>

CallerStep == Ask \/ Return \/ StartClose \/ StopLoop
LoopStep == TakeRequest \/ Replay \/ EndLoop
WorkerStep == RunCommand \/ CompleterStep \/ SendResult \/ StopWorker
Next == CallerStep \/ LoopStep \/ WorkerStep \/ PressKey \/ CutPrompts

-----------------------------------------------------------------------------
TypeOK ==
  /\ caller \in {"ready", "asking", "waiting", "failed", "closing", "closed"}
  /\ asked \in 0 .. Questions /\ loop \in {"none", "running", "ended"}
  /\ prompt.cursor \in {0} \cup Enabled /\ prompt.ticked \subseteq Offered
  /\ pending \in Seq(Keys) /\ Len(pending) <= MaxPending
  /\ completer \in {"idle", "debounce", "resolve", "send", "stopped"}

\* Keys typed ahead reach the prompts in the order pressed, none lost and none
\* twice, unless too many were; a question never gets a disabled or an empty
\* answer; suggestions on screen belong to the text under them.
KeysInOrder ==
  /\ ~pendingErr => pressed = used \o pending
  /\ \A i \in DOMAIN replies : replies[i].how = "answer" =>
       replies[i].ticked \cap Disabled = {} /\ (i % 2 = 1 => replies[i].ticked # {})
  /\ \A i \in DOMAIN prompt.menu : IsPrefix(prompt.base, prompt.menu[i])
  /\ prompt.menu # <<>> /\ prompt.index = 0 => prompt.text = prompt.base

\* Where the prompts come to rest: once the context ends the caller that asks is
\* answered or refused, and the worker and the program stop; the text on screen
\* gets its suggestions, for no request is lost and no older one takes its place
\* in the channel of one.
PromptsSettled ==
  /\ promptCut => caller = "closed" /\ completer = "stopped"
  /\ prompt.loading => caller \in {"failed", "closing", "closed"}
=============================================================================
