------------------------------ MODULE MCContent ------------------------------
(* What a request passes through on its way to a file, and the storage it   *)
(* comes from: parts that do not interact, each explored on its own while   *)
(* the others rest in an initial state.                                     *)
EXTENDS UriMatch, HttpdUri, HttpLookup, MCHttp, FileServing, MCSdSpi, MCFiles, FatMount, HttpResp,
        HttpdContexts, HttpdStart, SdLayout, FatTimes,
        CharTables, WebPaths

MCUris == {<<"/", "*">>, <<"/", "a">>, <<"/", "a", "?">>}
MCMatches == {pair \in MCUris \X MCUris : Wildcard(pair[1], pair[2])}

Templates == Strings({"a", "*", "?"}, 4)

Names == {<<>>, <<"a">>, <<"a", "a">>}

CookieTexts ==
  {<<>>, <<"a", "=">>, <<"a", "=", "a">>, <<"a", "=", "a", ";", " ", "a", "a", "=", "a", "a">>, <<"a", "=", "a", "a">>}

Asked ==
  [kind : {"query"}, text : Strings({"a", "=", "&"}, 5), key : Names, size : 1..3]
  \union [kind : {"cookie"}, text : Strings({"a", "=", ";", " "}, 5), key : Names, size : {2, 3}]
  \union [kind : {"header"}, text : Strings([field : Names, value : Strings({"v"}, 2)], 2),
          key : Names, size : 1..3]
  \union [kind : {"cookies"}, text : Strings([field : {CookieField, <<"a">>}, value : CookieTexts], 2),
          key : Names, size : {2, 3}]
  \union [kind : {"url"}, text : {<<"/">> \o t : t \in Strings({"?", "#", "a", "=", "&"}, 4)}, key : {<<"a">>}, size : {2}]
  \union [kind : {"url"}, text : {<<"/", "?">> \o t : t \in Strings({"?", "#", "a", "="}, 4)}, key : {<<"a">>}, size : {2}]

MCLength == [index |-> 0, song |-> 2]

OnMedia(u, a, b) == [uses |-> u, files |-> [spiffs |-> a, sd |-> b]]
MCSetups ==
  {OnMedia(u, {"index"}, b) : u \in {Media, {"sd"}}, b \in {{"index"}, {"song"}}}
  \union {OnMedia({"spiffs"}, {"song"}, {}), OnMedia(Media, {"song"}, {})}

Req(m, k, f) == [method |-> m, kind |-> k, file |-> f]
MCRequests ==
  {Req("POST", "beep", NoPath), Req("HEAD", "page", NoPath), Req("PUT", "page", NoPath)}
  \union {Req("GET", k, NoPath) : k \in {"detect", "page", "malformed", "file"}}
  \union {Req("GET", "file", File(m, "song")) : m \in Media}

MCMessages ==
  {<<a, b>> : a \in {0, 1, 16, 128, 255}, b \in {2^i : i \in 0..7} \union {0, 85, 254}}
    \union {<<0>>, <<255, 0, 170>>, <<2, 0, 64, 0>>, <<0, 0, 0, 0, 7>>}

MCCsds ==
  [kind : {"sd2"}, filler : {0, 1}, c_size : {0, 1, 255, 256, 65535, 65536, 4194302}]
  \union [kind : {"sd1"}, filler : {0, 1}, read_bl_len : {0, 9, 11}, c_size : {0, 3, 4, 1024, 4095},
          c_size_mult : {0, 1, 2, 7}, sector_size : {0, 1, 127}, write_bl_len : {9, 11}]
  \union [kind : {"mmc"}, filler : {0, 1}, read_bl_len : {9}, c_size : {4095}, c_size_mult : {7},
          erase_grp_size : {0, 16, 31}, erase_grp_mult : {0, 7, 8, 24, 31}]

Moment(y, mo, d, h, mi, s) == [year |-> y, mon |-> mo, mday |-> d, hour |-> h, min |-> mi, sec |-> s]
Unset == Moment(1970, 1, 1, 0, 0, 7)
MCMoments ==
  {Unset, Moment(2026, 2, 28, 23, 59, 59), Moment(2107, 12, 31, 23, 59, 59), Moment(2108, 1, 1, 0, 0, 1)}

Page(w, n, t, d) == [wide |-> w, entries |-> n, twins |-> t, downward |-> d]
NoPage == Page(TRUE, 0, {}, FALSE)
Big5Twins == {129, 144, 148, 158, 162, 164, 166, 168, 1081, 1085}
MCCodePages ==
  {Page(TRUE, n, {}, d) : n \in (1..40) \union {7389, 17048, 21792}, d \in BOOLEAN}
  \union {Page(TRUE, 13503, Big5Twins, d) : d \in BOOLEAN}
  \union {Page(TRUE, n, {t}, d) : n \in 5..12, t \in 1..4, d \in BOOLEAN}
  \union {Page(FALSE, 128, t, d) : t \in {{}, {3}}, d \in BOOLEAN}

MCMounts == {<<"/", "p">>, <<"/", "d">>}
MCFirstMount == <<"/", "d">>
MCSecondMount == <<"/", "p">>
MCTypeOf == [e \in {<<"x">>} |-> "audio/x"]
MCWebUris == {<<"/">> \o t : t \in Strings({"/", "p", "d", ".", "x", "?"}, 5)} \union {<<"p", "/">>}

VARIABLE part

Rest == [kind |-> "header", text |-> <<>>, key |-> <<>>, size |-> 1]

MCInit ==
  /\ part \in {"uri", "match", "lookup", "parse", "file", "sd", "fat", "vfs", "mount",
              "ws", "resp", "contexts", "start", "layout", "times",
              "pages", "paths"}
  /\ IF part = "fat" THEN TRUE ELSE volume = Unused
  /\ FatInit /\ (part = "fat" => volume # Unused)
  /\ IF part = "parse" THEN TRUE ELSE shapes = <<MCRestShape, MCRestShape>>
  /\ IF part = "file" THEN TRUE ELSE setup = OnMedia({"sd"}, {"index"}, {"song"})
  /\ IF part = "vfs" THEN TRUE ELSE program = Contexts_
  /\ IF part = "ws" THEN TRUE ELSE talk = RestTalk
  /\ IF part = "times" THEN TRUE ELSE clock = Unset
  /\ SdInit /\ (part # "sd" => card.kind = "block")
  /\ UriInit /\ ParseInit /\ FileInit /\ VfsInit /\ MountInit
  /\ WsInit /\ RespInit /\ CtxInit /\ StartInit /\ TimesInit
  /\ IF part = "layout" THEN LayoutInit ELSE layout = [of |-> "nothing"]
  /\ IF part = "pages" THEN page \in CodePages ELSE page = NoPage
  /\ IF part = "paths" THEN webUri \in MCWebUris ELSE webUri = <<>>
  /\ IF part = "match" THEN template \in Templates /\ uri \in Templates
                       ELSE template = <<>> /\ uri = <<>>
  /\ IF part = "lookup" THEN asked \in Asked ELSE asked = Rest

strVars == <<template, uri, asked, layout, page, webUri>>
requestVars == <<uriVars, parseVars, fileVars, strVars>>
storageVars == <<sdVars, fatVars, vfsVars, mountVars, timesVars>>
httpVars == <<wsVars, respVars, ctxVars, startVars>>

InUri(operation) == part = "uri" /\ operation /\ UNCHANGED <<part, parseVars, fileVars, strVars>>
InParse(operation) == part = "parse" /\ operation /\ UNCHANGED <<part, uriVars, fileVars, strVars>>
InFile(operation) == part = "file" /\ operation /\ UNCHANGED <<part, uriVars, parseVars, strVars>>
Stored(operation) == operation /\ UNCHANGED <<part, requestVars, httpVars>>
InFat(operation) == part = "fat" /\ Stored(operation) /\ UNCHANGED <<sdVars, vfsVars, mountVars, timesVars>>
InHttp(operation) == operation /\ UNCHANGED <<part, requestVars, storageVars>>

(* FatNext is taken apart: TLC follows each call by itself.                 *)
MCNext ==
  \/ (InUri(UriNext) \/ InParse(ParseNext) \/ InFile(FileNext)) /\ UNCHANGED <<storageVars, httpVars>>
  \/ part = "sd" /\ Stored(SdNext) /\ UNCHANGED <<fatVars, vfsVars, mountVars, timesVars>>
  \/ part = "vfs" /\ Stored(VfsNext) /\ UNCHANGED <<sdVars, fatVars, mountVars, timesVars>>
  \/ part = "mount" /\ Stored(MountNext) /\ UNCHANGED <<sdVars, fatVars, vfsVars, timesVars>>
  \/ part = "times" /\ Stored(TimesNext) /\ UNCHANGED <<sdVars, fatVars, vfsVars, mountVars>>
  \/ InFat(FOpen) \/ InFat(FRead) \/ InFat(FWrite) \/ InFat(FSeek) \/ InFat(FTruncate) \/ InFat(FSync)
  \/ InFat(FClose) \/ InFat(FUnlink) \/ InFat(FMkdir) \/ InFat(FRename) \/ InFat(FStat) \/ InFat(FList)
  \/ InFat(FGetFree)
  \/ part = "ws" /\ InHttp(WsNext) /\ UNCHANGED <<respVars, ctxVars, startVars>>
  \/ part = "resp" /\ InHttp(RespNext) /\ UNCHANGED <<wsVars, ctxVars, startVars>>
  \/ part = "contexts" /\ InHttp(CtxNext) /\ UNCHANGED <<wsVars, respVars, startVars>>
  \/ part = "start" /\ InHttp(StartNext) /\ UNCHANGED <<wsVars, respVars, ctxVars>>

mcVars == <<part, requestVars, storageVars, httpVars>>

MCSpec == MCInit /\ [][MCNext]_mcVars

(* Texts and registers are read for what they say: a wildcard template      *)
(* matches its language, a query, cookie or header is found, a checksum and *)
(* a card's size are those of the standard, a character has the code of its *)
(* code page, and a URI leads to the file it names (httpd_uri.c:26-83,      *)
(* httpd_parse.c:896-1230, diskio_sd_spi.c:126-170, 690-783,                *)
(* ffunicode.c:15222-15456, web_server.c:54-257).                           *)
TextsRead == MatchesLanguage /\ LookupFinds /\ LayoutRead /\ CharsFound /\ PathsLead
=============================================================================
