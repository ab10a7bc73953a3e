---------------------------- MODULE FileServing ----------------------------
(***************************************************************************)
(* One request after the other in the web server's task, from the handler  *)
(* that decides what the answer is to the last chunk of a file, while the  *)
(* main task mounts the storage, the orchestrator starts and stops the     *)
(* server, and a shutdown unmounts the storage.                            *)
(* Source: main/web_server.c, main/storage.c, main/orchestrator.c,         *)
(* esp_http_server/src/httpd_txrx.c.                                       *)
(*                                                                         *)
(* A path is a medium and a name; what goes out is a sequence of parts: a  *)
(* status line with its headers, the chunks of a file by number, the       *)
(* terminating chunk, and "cut" where a send failed halfway.               *)
(* Abstracted: the texts of headers and errors, the size of a chunk, the   *)
(* answers of beep_handler() (module Beep), the session (HttpServer).      *)
(***************************************************************************)
EXTENDS Naturals, Sequences, FiniteSets

CONSTANTS
  Setups,     \* which media the build uses, and which files are on each
  Length,     \* the length of a file of each name, in chunks
  Requests,   \* what clients ask for
  MaxStarts,  \* bound: starts of the web server
  MaxRequests \* bound: requests

Media == {"spiffs", "sd"}

(* What clients ask for.  "other" is a path outside the media, or one with  *)
(* ".." in it; "detect" a captive portal probe, "page" the portal's page.   *)
File(m, f) == [medium |-> m, name |-> f]
NoPath == File("other", "index")
IsRequest(r) ==
  /\ r.method \in {"GET", "HEAD", "POST", "PUT"}
  /\ r.kind \in {"beep", "detect", "page", "malformed", "file"}
  /\ r.file \in [medium : Media \union {"other"}, name : DOMAIN Length]

ASSUME FileConstants ==
  /\ \A s \in Setups : s.uses \subseteq Media /\ s.uses # {} /\ s.files \in [Media -> SUBSET DOMAIN Length]
  /\ \A f \in DOMAIN Length : Length[f] \in Nat
  /\ "index" \in DOMAIN Length /\ Requests # {} /\ (\A r \in Requests : IsRequest(r))
  /\ MaxStarts \in Nat /\ MaxRequests \in Nat

VARIABLES
  setup,   \* the member of Setups this device is
  vol,     \* which media are mounted
  flag,    \* spiffs_mounted, sd_mounted
  mpc,     \* where storage_init(), storage_deinit() is
  opc,     \* where the orchestrator is
  running, \* EVT_SERVERS_RUNNING_BIT
  closing, \* EVT_SHUTDOWN_BIT
  web,     \* the web server's task: "off", "bare" without its handler yet, "up"
  lost,    \* httpd_stop() failed: nobody holds the server any more
  starts, requests,
  hpc,     \* where the web server's task is
  rq,      \* the request: its method and what it asks for
  path,    \* filepath
  fd,      \* the open file: the medium and position, or none
  chunk,   \* what fread() delivered last
  ret,
  out,     \* what was sent for the request
  excuse   \* history: why the request need not have its whole answer

storeVars == <<setup, vol, flag, mpc>>
orchVars == <<opc, running, closing, web, lost, starts>>
reqVars == <<requests, hpc, rq, path, fd, chunk, ret, out, excuse>>
fileVars == <<storeVars, orchVars, reqVars>>

uses == setup.uses

NoRequest == [method |-> "GET", kind |-> "page", file |-> NoPath]

(* A part of an answer: its kind, and the number of a chunk. *)
Part(k) == <<k, 0>>
NoChunk == Part("none")

NoFile == [medium |-> "other", next |-> 0, error |-> FALSE]

FileInit ==
  /\ setup \in Setups
  /\ vol = [m \in Media |-> FALSE] /\ flag = vol /\ mpc = <<"mount", "spiffs">>
  /\ opc = "boot" /\ running = FALSE /\ closing = FALSE /\ web = "off" /\ lost = FALSE
  /\ starts = 0 /\ requests = 0
  /\ hpc = "idle" /\ rq = NoRequest /\ path = NoPath
  /\ fd = NoFile /\ chunk = NoChunk /\ ret = "ok" /\ out = <<>> /\ excuse = "none"

-----------------------------------------------------------------------------
(* storage.c *)

(* storage_init(): SPIFFS, then the card, each if the build uses it.  A     *)
(* medium that fails to mount is fatal only when it is the only one.        *)
AfterMount(m) == IF m = "spiffs" THEN <<"mount", "sd">> ELSE <<"check", "">>

StorageMount(m) ==
  /\ mpc = <<"mount", m>>
  /\ IF m \notin uses THEN mpc' = AfterMount(m) /\ UNCHANGED vol
     ELSE \/ vol' = [vol EXCEPT ![m] = TRUE] /\ mpc' = <<"flag", m>>
          \/ mpc' = (IF uses = {m} THEN <<"fatal", "">> ELSE AfterMount(m)) /\ UNCHANGED vol
  /\ UNCHANGED <<setup, flag, orchVars, reqVars>>

SetMounted(m) ==
  /\ mpc = <<"flag", m>> /\ flag' = [flag EXCEPT ![m] = TRUE] /\ mpc' = AfterMount(m)
  /\ UNCHANGED <<setup, vol, orchVars, reqVars>>

AnyMounted == \E m \in Media : flag[m]

StorageCheck ==
  /\ mpc = <<"check", "">>
  /\ IF AnyMounted THEN mpc' = <<"ready", "">> /\ opc' = "idle" ELSE mpc' = <<"fatal", "">> /\ UNCHANGED opc
  /\ UNCHANGED <<setup, vol, flag, running, closing, web, lost, starts, reqVars>>

(* storage_deinit(): the card first; the flag is cleared afterwards.        *)
Unmount(m) ==
  /\ mpc = <<"unmount", m>>
  /\ vol' = [vol EXCEPT ![m] = vol[m] /\ ~flag[m]] /\ mpc' = <<"unflag", m>>
  /\ UNCHANGED <<setup, flag, orchVars, reqVars>>

ClearMounted(m) ==
  /\ mpc = <<"unflag", m>>
  /\ flag' = [flag EXCEPT ![m] = FALSE] /\ mpc' = IF m = "sd" THEN <<"unmount", "spiffs">> ELSE <<"end", "">>
  /\ UNCHANGED <<setup, vol, orchVars, reqVars>>

(* free_proc() gets there when the orchestrator is done. *)
FreeProc ==
  /\ mpc = <<"ready", "">> /\ closing /\ opc = "done" /\ mpc' = <<"unmount", "sd">>
  /\ UNCHANGED <<setup, vol, flag, orchVars, reqVars>>

CaptivePath == IF flag["spiffs"] THEN "spiffs" ELSE IF flag["sd"] THEN "sd" ELSE "other"
PrimaryPath == IF flag["sd"] THEN "sd" ELSE IF flag["spiffs"] THEN "spiffs" ELSE "other"
HasSecondary == uses = Media /\ flag["sd"] /\ flag["spiffs"]
Secondary == "spiffs"

-----------------------------------------------------------------------------
(* orchestrator.c, start_webserver(), stop_webserver() *)

StartServer ==
  /\ opc = "idle" /\ ~closing /\ ~running /\ starts < MaxStarts
  /\ starts' = starts + 1
  /\ IF web = "off" THEN web' = "bare" /\ opc' = "register"
     ELSE opc' = "announce" /\ UNCHANGED web   \* httpd_start() fails: the port is taken
  /\ UNCHANGED <<storeVars, running, closing, lost, reqVars>>

RegisterHandlers ==
  /\ opc = "register" /\ web' = "up" /\ opc' = "announce"
  /\ UNCHANGED <<storeVars, running, closing, lost, starts, reqVars>>

Announce ==
  /\ opc = "announce" /\ running' = TRUE /\ opc' = "idle"
  /\ UNCHANGED <<storeVars, closing, web, lost, starts, reqVars>>

(* A STOP command, or the way out of the task.                              *)
Excuse(why) == excuse' = IF hpc = "idle" THEN excuse ELSE why

StopServers ==
  /\ opc = "idle" /\ running /\ running' = FALSE
  /\ opc' = IF closing THEN "stop, exit" ELSE "stop"
  /\ Excuse("stopping")
  /\ UNCHANGED <<storeVars, closing, web, lost, starts, requests, hpc, rq, path, fd, chunk, ret, out>>

AfterStop == IF opc = "stop, exit" THEN "done" ELSE "idle"

(* httpd_stop() returns when the task has finished its request. *)
ServerStops == hpc = "idle" /\ web' = "off"

StopWebServer ==
  /\ opc \in {"stop", "stop, exit"} /\ opc' = AfterStop
  /\ \/ web # "off" /\ ~lost /\ ServerStops /\ UNCHANGED lost
     \/ web # "off" /\ ~lost /\ lost' = TRUE /\ UNCHANGED web
     \/ (web = "off" \/ lost) /\ UNCHANGED <<web, lost>>
  /\ UNCHANGED <<storeVars, running, closing, starts, reqVars>>

Shutdown ==
  /\ ~closing /\ mpc = <<"ready", "">> /\ closing' = TRUE
  /\ Excuse("stopping")
  /\ UNCHANGED <<storeVars, opc, running, web, lost, starts, requests, hpc, rq, path, fd, chunk, ret, out>>

OrchestratorExit ==
  /\ opc = "idle" /\ closing /\ ~running /\ opc' = "done"
  /\ UNCHANGED <<storeVars, running, closing, web, lost, starts, reqVars>>

-----------------------------------------------------------------------------
(* httpd_txrx.c *)

hVars == <<requests, rq>>

(* httpd_resp_send(): the head and the body go out in parts; any may fail,  *)
(* or the buffer for the head cannot be allocated.                          *)
RespSend(status, then) ==
  /\ hpc' = then
  /\ \/ out' = Append(out, Part(status)) /\ UNCHANGED excuse
     \/ out' \in {out, Append(out, Part("cut"))} /\ excuse' = "send"

(* httpd_resp_send_chunk(): the head goes first, once. *)
Chunk(part, ok, failed) ==
  LET head == IF out = <<>> THEN <<Part("200")>> ELSE <<>> IN
  \/ out' = out \o head \o <<part>> /\ ok /\ UNCHANGED excuse
  \/ out' \in {out, out \o head \o <<Part("cut")>>} /\ failed /\ excuse' = "send"

-----------------------------------------------------------------------------
(* main_handler() *)

Stopping == closing \/ ~running

NextRequest ==
  /\ hpc = "idle" /\ web # "off" /\ requests < MaxRequests
  /\ requests' = requests + 1
  /\ rq' \in Requests
  /\ hpc' = IF web = "bare" THEN "no handler" ELSE "handler"
  /\ UNCHANGED <<path, fd, chunk, ret, out>>
  /\ excuse' = IF Stopping THEN "not announced" ELSE "none"
  /\ UNCHANGED <<storeVars, orchVars>>

HandlerVars == <<storeVars, orchVars, hVars>>

(* httpd_req_handle_err(): the default answer for a URI without handler;    *)
(* a malformed request is closed without an answer by parse_err_handler().  *)
NoHandler ==
  /\ hpc = "no handler" /\ RespSend("404", "done")
  /\ UNCHANGED <<HandlerVars, path, fd, chunk, ret>>

Malformed ==
  /\ hpc \in {"handler", "no handler"} /\ rq.kind = "malformed" /\ hpc' = "done"
  /\ excuse' = "malformed"
  /\ UNCHANGED <<HandlerVars, path, fd, chunk, ret, out>>

IsBeep == rq.method = "POST" /\ rq.kind = "beep"

AnswerBeep ==
  /\ hpc = "handler" /\ IsBeep
  /\ RespSend("beep", "done") /\ UNCHANGED <<HandlerVars, path, fd, chunk, ret>>

AnswerHead ==
  /\ hpc = "handler" /\ rq.method = "HEAD" /\ rq.kind # "malformed"
  /\ RespSend("200 empty", "done") /\ UNCHANGED <<HandlerVars, path, fd, chunk, ret>>

(* The method, the probes of captive portals, or is_path_safe(). *)
Redirected ==
  \/ rq.method \notin {"GET", "HEAD"} /\ ~IsBeep
  \/ rq.method = "GET" /\ rq.kind \in {"detect", "beep"}
  \/ rq.method = "GET" /\ rq.kind = "file" /\ rq.file.medium \notin uses

AnswerRedirect ==
  /\ hpc = "handler" /\ rq.kind # "malformed" /\ Redirected
  /\ RespSend("302", "done") /\ UNCHANGED <<HandlerVars, path, fd, chunk, ret>>

ChoosePath ==
  /\ hpc = "handler" /\ rq.method = "GET" /\ ~Redirected /\ rq.kind # "malformed"
  /\ path' = IF rq.kind = "page" THEN File(CaptivePath, "index") ELSE rq.file
  /\ hpc' = "open" /\ UNCHANGED <<HandlerVars, fd, chunk, ret, out, excuse>>

Present(m, f) == m \in Media /\ vol[m] /\ f \in setup.files[m]

Opened(m) == [medium |-> m, next |-> 1, error |-> FALSE]

Fallback == HasSecondary /\ path.medium = PrimaryPath

OpenFile ==
  /\ hpc = "open"
  /\ IF Present(path.medium, path.name)
       THEN fd' = Opened(path.medium) /\ hpc' = "read"
       ELSE fd' = NoFile /\ hpc' = IF Fallback THEN "open second" ELSE "not found"
  /\ UNCHANGED <<HandlerVars, path, chunk, ret, out, excuse>>

OpenSecond ==
  /\ hpc = "open second"
  /\ IF Present(Secondary, path.name)
       THEN fd' = Opened(Secondary) /\ path' = [path EXCEPT !.medium = Secondary] /\ hpc' = "read"
       ELSE hpc' = "not found" /\ UNCHANGED <<fd, path>>
  /\ UNCHANGED <<HandlerVars, chunk, ret, out, excuse>>

NotFound ==
  /\ hpc = "not found" /\ RespSend("302", "done")
  /\ UNCHANGED <<HandlerVars, path, fd, chunk, ret>>

(* fread(): the next chunk; nothing at the end; or the medium fails, which  *)
(* may still deliver a part of the chunk.                                   *)
ReadChunk ==
  /\ hpc = "read"
  /\ \/ /\ ~fd.error /\ fd.next <= Length[path.name]
        /\ chunk' = <<"chunk", fd.next>> /\ fd' = [fd EXCEPT !.next = @ + 1] /\ hpc' = "bits"
     \/ /\ ~fd.error /\ fd.next <= Length[path.name]
        /\ fd' = [fd EXCEPT !.error = TRUE]
        /\ \/ chunk' = Part("short") /\ hpc' = "bits"
           \/ hpc' = "ferror" /\ UNCHANGED chunk
     \/ /\ fd.error \/ fd.next > Length[path.name]
        /\ hpc' = "ferror" /\ UNCHANGED <<chunk, fd>>
  /\ UNCHANGED <<HandlerVars, path, ret, out, excuse>>

CheckBits ==
  /\ hpc = "bits"
  /\ IF Stopping THEN ret' = "fail" /\ hpc' = "close" ELSE hpc' = "send" /\ UNCHANGED ret
  /\ UNCHANGED <<HandlerVars, path, fd, chunk, out, excuse>>

SendChunk ==
  /\ hpc = "send"
  /\ Chunk(chunk, hpc' = "read" /\ UNCHANGED ret, hpc' = "close" /\ ret' = "fail")
  /\ UNCHANGED <<HandlerVars, path, fd, chunk>>

(* Mutant: the end of the file is what fread() returned nothing for. *)
MutReadFailed == FALSE

ReadFailed == fd.error

CheckError ==
  /\ hpc = "ferror"
  /\ ret' = IF ReadFailed THEN "fail" ELSE ret
  /\ hpc' = "close" /\ UNCHANGED <<HandlerVars, path, fd, chunk, out, excuse>>

AfterFile == IF ret = "ok" THEN "last" ELSE "done"

CloseFile ==
  /\ hpc = "close" /\ fd' = NoFile /\ hpc' = AfterFile
  /\ excuse' = IF fd.error /\ excuse = "none" THEN "read" ELSE excuse
  /\ UNCHANGED <<HandlerVars, path, chunk, ret, out>>

LastChunk ==
  /\ hpc = "last" /\ Chunk(Part("end"), hpc' = "done", hpc' = "done")
  /\ UNCHANGED <<HandlerVars, path, fd, chunk, ret>>

(* ESP_FAIL, always: the session is closed. *)
EndRequest ==
  /\ hpc = "done" /\ hpc' = "idle"
  /\ rq' = NoRequest /\ path' = NoPath /\ chunk' = NoChunk /\ ret' = "ok" /\ out' = <<>>
  /\ excuse' = "none" /\ UNCHANGED <<storeVars, orchVars, requests, fd>>

HandlerStep ==
  \/ NoHandler \/ Malformed \/ AnswerBeep \/ AnswerHead \/ AnswerRedirect \/ NotFound
  \/ ChoosePath \/ OpenFile \/ OpenSecond \/ ReadChunk \/ CheckBits \/ SendChunk
  \/ CheckError \/ CloseFile \/ LastChunk \/ EndRequest

OrchestratorStep ==
  \/ StartServer \/ RegisterHandlers \/ Announce
  \/ StopServers \/ StopWebServer \/ OrchestratorExit

StorageStep ==
  \/ \E m \in Media : StorageMount(m) \/ SetMounted(m) \/ Unmount(m) \/ ClearMounted(m)
  \/ StorageCheck \/ FreeProc

FileNext == NextRequest \/ HandlerStep \/ OrchestratorStep \/ StorageStep \/ Shutdown

FileSpec == FileInit /\ [][FileNext]_fileVars

-----------------------------------------------------------------------------

Whole(f) == <<Part("200")>> \o [i \in 1..Length[f] |-> <<"chunk", i>>] \o <<Part("end")>>

(* An answer that ends is the whole file, in order: whatever was read or    *)
(* sent in part, and whoever stopped the servers in between, the client     *)
(* sees the end of a file only behind all of it (web_server.c:405-439).     *)
EndMeansWhole ==
  (\E i \in 1..Len(out) : out[i] = Part("end")) => out = Whole(path.name)

(* A request whose handler is through has an answer with one status line,   *)
(* the whole of a file if it is one, unless a send or a read failed, or the *)
(* servers are being stopped or not yet announced (web_server.c:258-453).   *)
EveryRequestAnswered ==
  hpc = "done" /\ excuse = "none" =>
    out \in {<<Part("404")>>, <<Part("302")>>, <<Part("200 empty")>>, <<Part("beep")>>, Whole(path.name)}

(* A file that is on the medium asked for, or on the second one when it was *)
(* asked for on the first, is sent and not taken for missing                *)
(* (web_server.c:364-392, storage.c:219-252).                               *)
OnAMedium ==
  \/ Present(rq.file.medium, rq.file.name)
  \/ rq.file.medium = "sd" /\ vol["sd"] /\ Present("spiffs", rq.file.name)

PresentMeansFound ==
  hpc = "not found" /\ rq.kind = "file" /\ ~lost => ~OnAMedium

(* As long as a server that is stopped in order may read, what it reads     *)
(* from is mounted, the flags are those of the media, and there is one:     *)
(* storage_init() comes before and storage_deinit() after every request     *)
(* (storage.c:36-176, power_mgmt.c:60-148).  A server that httpd_stop()     *)
(* failed to stop (web_server.c:624) is beyond that.                        *)
MediaWhileServing ==
  (web # "off" \/ hpc # "idle") /\ ~lost =>
    flag = vol /\ (\E m \in Media : vol[m]) /\ (fd # NoFile => vol[fd.medium])

(* What a client is told is true: whole files only, an answer to each        *)
(* request, "not found" only of what is not there (web_server.c:172-545);    *)
(* and the media it is read from stay.                                       *)
ServingRight == EndMeansWhole /\ EveryRequestAnswered /\ PresentMeansFound /\ MediaWhileServing
=============================================================================
