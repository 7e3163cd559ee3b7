----------------------------- MODULE HttpClient -----------------------------
(***************************************************************************)
(* lib/http_get.js: one HTTP request through core.httpGet, with its        *)
(* retries, redirects, cookies, conditional and file options.              *)
(*                                                                         *)
(* All attempts of a request share one params object: httpGet starts over  *)
(* with it after each lookup, retry and redirect (init), and the callbacks *)
(* of each attempt read and change it.  What goes on at a time is a set of *)
(* continuations, each of which leads to another one or to the callback.   *)
(*                                                                         *)
(* Sockets are node's (0.10, the engine of package.json): before the       *)
(* response a failure is an error event; a connection that closes within   *)
(* the body, also because the request was aborted, just ends the response; *)
(* one that fails within the body has an error event and then ends the     *)
(* response too.                                                           *)
(***************************************************************************)
EXTENDS Integers, FiniteSets

CONSTANTS
  Slots,          \* places for continuations
  RetryCount,     \* options.retryCount
  RetryOnError,   \* options.retryOnError
  MaxRedirects,   \* the 10 of checkRedirect
  MaxSize,        \* options.maxSize, in chunks; 0 for none
  Body,           \* bound: chunks of a body
  Breaks          \* bound: connections that fail within the body

ASSUME ClientOptionAssumption == RetryCount \in Nat /\ RetryOnError \in BOOLEAN
                                 /\ MaxRedirects \in Nat /\ MaxSize \in Nat
ASSUME SlotAssumption == IsFiniteSet(Slots)
ASSUME ClientBoundAssumption == Body \in Nat /\ Breaks \in Nat

Statuses == {"ok", "error", "moved"}

VARIABLES
  file,        \* is the body written to options.file?
  cookies,     \* options.cookies: "none", "load" for true, or a "list"
  postfile,    \* options.postfile: "none", or what postsize is: "unknown" and
               \* "empty" are not set, "known" is
  conditional, \* options.conditional without mtime
  step,        \* the continuation in each slot: a lookup, a retry, a socket, or "none"
  status,      \* the status of the response in each slot
  retries,     \* retryCount
  redirects,   \* redirects
  size,        \* size, in chunks
  err,         \* err: writing failed
  fd,          \* fd
  openFiles,   \* file descriptors that are open
  breaks,      \* history: connections that failed within the body
  answers      \* history: calls of the callback

options == <<file, cookies, postfile, conditional>>
params == <<retries, redirects, size, err, fd>>
clientVars == <<options, step, status, params, openFiles, breaks, answers>>

ClientInit ==
    /\ file \in BOOLEAN
    /\ cookies \in {"none", "load"}
    /\ postfile \in {"none", "unknown", "empty"}
    /\ conditional \in BOOLEAN
    /\ \E s \in Slots : step = [t \in Slots |-> IF t = s THEN "start" ELSE "none"]
    /\ status = [s \in Slots |-> "none"]
    /\ retries = RetryCount /\ redirects = 0
    /\ size = 0 /\ err = FALSE /\ fd = FALSE
    /\ openFiles = 0 /\ breaks = 0 /\ answers = 0
-----------------------------------------------------------------------------
(* httpGet: init resets the params, a descriptor that is open included;    *)
(* prepare may need to look something up first, and then starts over.      *)

\* What prepare looks up next; the time of a file to post serves as mtime.
Missing(jar, post, cond) == IF jar = "load" THEN "cookies"
                            ELSE IF post \in {"unknown", "empty"} THEN "poststat"
                            ELSE IF cond /\ file /\ post = "none" THEN "filestat"
                            ELSE "connecting"

HttpGet(s, jar, post, cond) ==
  /\ cookies' = jar /\ postfile' = post
  /\ conditional' = (cond /\ Missing(jar, post, cond) \in {"cookies", "poststat"})
  /\ step' = [step EXCEPT ![s] = Missing(jar, post, cond)]
  /\ status' = [status EXCEPT ![s] = "none"]
  /\ retries' = IF retries < 0 THEN 0 ELSE retries
  /\ size' = 0 /\ err' = FALSE /\ fd' = FALSE
  /\ UNCHANGED <<file, breaks>>

\* The first call, and the timer of a retry.
Start(s) == /\ step[s] \in {"start", "retry"}
            /\ HttpGet(s, cookies, postfile, conditional)
            /\ UNCHANGED <<redirects, openFiles, answers>>

\* cookieGet answers with a list also when the query failed.
CookiesLoaded(s) == /\ step[s] = "cookies"
                    /\ HttpGet(s, "list", postfile, conditional)
                    /\ UNCHANGED <<redirects, openFiles, answers>>

\* The size 0 of an empty file counts as not set.
PostFileFound(s) == /\ step[s] = "poststat"
                    /\ HttpGet(s, cookies, IF postfile = "empty" THEN "empty" ELSE "known", conditional)
                    /\ UNCHANGED <<redirects, openFiles, answers>>

FileChecked(s) == /\ step[s] = "filestat"
                  /\ HttpGet(s, cookies, postfile, FALSE)
                  /\ UNCHANGED <<redirects, openFiles, answers>>

\* The callback is called; this was the last of the continuation.
Answer(s) == /\ step' = [step EXCEPT ![s] = "none"]
             /\ answers' = answers + 1

PostFileMissing(s) == /\ step[s] = "poststat"
                      /\ Answer(s)
                      /\ UNCHANGED <<options, status, params, openFiles, breaks>>
-----------------------------------------------------------------------------
(* The events of a socket. *)

Respond(s) == /\ step[s] = "connecting"
              /\ step' = [step EXCEPT ![s] = "body"]
              /\ \E code \in Statuses : status' = [status EXCEPT ![s] = code]
              /\ UNCHANGED <<options, params, openFiles, breaks, answers>>

\* The first data of a good response opens the file.
Opens(s) == file /\ ~fd /\ status[s] = "ok"

\* onData, writeFile: an error while opening or writing and too much data abort the request.
Data(s) == /\ step[s] = "body" /\ size < Body
           /\ size' = size + 1
           /\ \E opened \in IF Opens(s) THEN BOOLEAN ELSE {fd} :
              \E failed \in IF opened THEN BOOLEAN ELSE {Opens(s)} :
                /\ fd' = opened
                /\ openFiles' = IF opened /\ ~fd THEN openFiles + 1 ELSE openFiles
                /\ err' = (err \/ failed)
                /\ step' = [step EXCEPT ![s] = IF failed \/ (MaxSize > 0 /\ size' > MaxSize)
                                               THEN "aborted" ELSE "body"]
           /\ UNCHANGED <<options, status, retries, redirects, breaks, answers>>

\* httpTimeout: no data, so the request is aborted.
TimeOut(s) == /\ step[s] = "body"
              /\ step' = [step EXCEPT ![s] = "aborted"]
              /\ UNCHANGED <<options, status, params, openFiles, breaks, answers>>

\* onError before a response, also of a request that was aborted by its timeout.
Fail(s) == /\ step[s] = "connecting"
           /\ retries' = retries - 1
           /\ \/ retries > 0 /\ step' = [step EXCEPT ![s] = "retry"] /\ UNCHANGED answers
              \/ retries <= 0 /\ Answer(s)
           /\ UNCHANGED <<options, status, redirects, size, err, fd, openFiles, breaks>>

\* onError within the body; the end of the response is still to come.
Break(s) == /\ step[s] = "body" /\ breaks < Breaks
            /\ breaks' = breaks + 1
            /\ retries' = retries - 1
            /\ \/ /\ retries > 0
                  /\ \E t \in Slots : /\ step[t] = "none"
                                      /\ step' = [step EXCEPT ![s] = "aborted", ![t] = "retry"]
                  /\ UNCHANGED answers
               \/ /\ retries <= 0
                  /\ step' = [step EXCEPT ![s] = "aborted"]
                  /\ answers' = answers + 1
            /\ UNCHANGED <<options, status, redirects, size, err, fd, openFiles>>
-----------------------------------------------------------------------------
(* onEnd: close, and then a retry, a redirect or the callback. *)

Ended(s) == step[s] \in {"body", "aborted"}

CloseFile == openFiles' = IF fd THEN openFiles - 1 ELSE openFiles

Repeat(s) == RetryOnError /\ status[s] = "error"

\* Mutant: no return after the timer was set.
EndRetryGoesOn(s) == /\ Ended(s) /\ CloseFile
                     /\ Repeat(s) /\ retries > 0
                     /\ retries' = retries - 1
                     /\ fd' = FALSE
                     /\ step' = [step EXCEPT ![s] = "retry"]
                     /\ answers' = answers + 1
                     /\ UNCHANGED <<options, status, redirects, size, err, breaks>>

EndRetry(s) == /\ Ended(s) /\ CloseFile
               /\ Repeat(s) /\ retries > 0
               /\ retries' = retries - 1
               /\ fd' = FALSE
               /\ step' = [step EXCEPT ![s] = "retry"]
               /\ UNCHANGED <<options, status, redirects, size, err, breaks, answers>>

\* Mutant: redirects are not counted.
EndRedirectAlways(s) == /\ Ended(s) /\ CloseFile
                        /\ status[s] = "moved"
                        /\ HttpGet(s, IF cookies = "none" THEN "none" ELSE "load", "none", conditional)
                        /\ UNCHANGED <<redirects, answers>>

\* checkRedirect forgets what to post, and loads cookies again for the new host.
EndRedirect(s) == /\ Ended(s) /\ CloseFile
                  /\ status[s] = "moved" /\ redirects + 1 < MaxRedirects
                  /\ redirects' = redirects + 1
                  /\ HttpGet(s, IF cookies = "none" THEN "none" ELSE "load", "none", conditional)
                  /\ UNCHANGED answers

End(s) == /\ Ended(s) /\ CloseFile
          /\ ~(Repeat(s) /\ retries > 0)
          /\ status[s] = "moved" => redirects + 1 >= MaxRedirects
          /\ retries' = IF Repeat(s) THEN retries - 1 ELSE retries
          /\ redirects' = IF status[s] = "moved" THEN redirects + 1 ELSE redirects
          /\ fd' = FALSE
          /\ Answer(s)
          /\ UNCHANGED <<options, status, size, err, breaks>>

Continue(s) ==
    \/ Start(s) \/ CookiesLoaded(s) \/ PostFileFound(s) \/ PostFileMissing(s) \/ FileChecked(s)
    \/ Respond(s) \/ Fail(s) \/ EndRetry(s) \/ EndRedirect(s) \/ End(s)

ClientNext == \E s \in Slots : Continue(s) \/ Data(s) \/ TimeOut(s) \/ Break(s)

ClientSpec == ClientInit /\ [][ClientNext]_clientVars

\* Timers run out, lookups come back, and httpTimeout ends a silent socket.
FairClientSpec == ClientSpec /\ \A s \in Slots : WF_clientVars(Continue(s))
-----------------------------------------------------------------------------
(* Properties *)

Busy == {s \in Slots : step[s] # "none"}

ClientTypeOK ==
    /\ file \in BOOLEAN /\ conditional \in BOOLEAN
    /\ cookies \in {"none", "load", "list"}
    /\ postfile \in {"none", "unknown", "empty", "known"}
    /\ step \in [Slots -> {"none", "start", "retry", "cookies", "poststat", "filestat",
                         "connecting", "body", "aborted"}]
    /\ status \in [Slots -> Statuses \cup {"none"}]
    /\ retries \in Int /\ redirects \in Nat
    /\ size \in Nat /\ err \in BOOLEAN /\ fd \in BOOLEAN
    /\ openFiles \in Nat /\ breaks \in Nat /\ answers \in Nat

\* Each request has one answer: a request that is over has called its callback
\* once and has left no file open, whatever failed, was aborted, moved or had to
\* be repeated, unless a connection failed within the body.  Then onError and
\* onEnd both go on, which is one answer more for each such connection.
OneAnswerEach == /\ answers + Cardinality(Busy) = 1 + breaks
                 /\ Busy = {} /\ breaks = 0 => openFiles = 0

\* Retries, redirects and lookups come to an end, with the callback, unless the
\* file to post is empty: its size 0 is looked up again and again.
EventuallyAnswered == postfile # "empty" ~> answers > 0
=============================================================================
