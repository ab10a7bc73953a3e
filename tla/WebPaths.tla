------------------------------ MODULE WebPaths ------------------------------
(***************************************************************************)
(* From the URI of a GET request to the path that is opened, the path      *)
(* tried on the other medium, and the content type (main/web_server.c).    *)
(* Texts are sequences of characters; a mount point is "/" and a letter.   *)
(***************************************************************************)
EXTENDS Integers, Sequences

CONSTANTS
  MaxPath,  \* CONFIG_SMART_AP_MAX_PATH_LEN, with the null character
  Mounts,   \* the mount points of the configured media
  Primary_, Second_,  \* the mount points tried first and second
  TypeOf    \* TypeOf[e]: the content type of extension e, in lower case

ASSUME WebPathsConstants == MaxPath > 2 /\ Second_ # Primary_

VARIABLE webUri

PlacesOf(text, c) == {i \in DOMAIN text : text[i] = c}

BeginsWith(text, start) == Len(text) >= Len(start) /\ SubSeq(text, 1, Len(start)) = start

(* strlcpy(), then the query is cut off. *)
PathOf(uri) ==
  LET copied == SubSeq(uri, 1, IF Len(uri) < MaxPath THEN Len(uri) ELSE MaxPath - 1)
      marks == PlacesOf(copied, "?")
  IN IF marks = {} THEN copied ELSE SubSeq(copied, 1, (CHOOSE i \in marks : \A j \in marks : i <= j) - 1)

Below(path, mount) == BeginsWith(path, mount) /\ (Len(path) = Len(mount) \/ path[Len(mount) + 1] = "/")

is_path_safe(path) ==
  /\ path # <<>> /\ path[1] = "/"
  /\ \A i \in 1..(Len(path) - 1) : ~(path[i] = "." /\ path[i + 1] = ".")
  /\ \E mount \in Mounts : Below(path, mount)

(* The same name below the second mount point, tried if the first has none; *)
(* <<>> if there is nothing to try.                                         *)
AltPath(path) ==
  LET alt == Second_ \o SubSeq(path, Len(Primary_) + 1, Len(path))
  IN IF BeginsWith(path, Primary_) /\ is_path_safe(alt) THEN alt ELSE <<>>

get_mime_type(path) ==
  LET dots == PlacesOf(path, ".")
      ext == SubSeq(path, (CHOOSE i \in dots : \A j \in dots : j <= i) + 1, Len(path))
  IN IF dots = {} THEN "text/plain" ELSE IF ext = <<>> THEN "text/plain"
     ELSE IF ext \in DOMAIN TypeOf THEN TypeOf[ext] ELSE "octet-stream"

(* The names of a path, between its slashes. *)
NameOf(path) ==
  LET slashes == PlacesOf(path, "/") IN SubSeq(path, (CHOOSE i \in slashes : \A j \in slashes : j <= i) + 1, Len(path))

(* Whatever is asked for, a file of a configured medium is opened or none;  *)
(* one whose path fits, and has no two dots in a row, is opened under the   *)
(* name it was asked for, whatever query follows; the second attempt is for *)
(* that name on the other medium; and the type is that of the file's own    *)
(* extension, if it has one (web_server.c:54-158, 204-257, 345-390).        *)
PathsLead ==
  LET path == PathOf(webUri)
      asked_ == IF PlacesOf(webUri, "?") = {} THEN webUri
                ELSE SubSeq(webUri, 1, (CHOOSE i \in PlacesOf(webUri, "?") : \A j \in PlacesOf(webUri, "?") : i <= j) - 1)
      plain == \A i \in 1..(Len(asked_) - 1) : SubSeq(asked_, i, i + 1) # <<".", ".">>
  IN /\ is_path_safe(path) =>
          /\ \E mount \in Mounts : path = mount \/ BeginsWith(path, Append(mount, "/"))
          /\ BeginsWith(asked_, path) /\ (Len(asked_) < MaxPath => path = asked_)
          /\ path[2] = Primary_[2] => Len(AltPath(path)) = Len(path) /\ NameOf(AltPath(path)) =
                IF Len(path) = Len(Primary_) THEN NameOf(Second_) ELSE NameOf(path)
          /\ path[2] # Primary_[2] => AltPath(path) = <<>>
          /\ LET n == NameOf(path) IN
             /\ Len(n) > 1 /\ n[Len(n) - 1] = "." => get_mime_type(path) =
                  IF SubSeq(n, Len(n), Len(n)) \in DOMAIN TypeOf THEN TypeOf[SubSeq(n, Len(n), Len(n))] ELSE "octet-stream"
             /\ PlacesOf(path, ".") = {} => get_mime_type(path) = "text/plain"
     /\ plain /\ Len(asked_) < MaxPath /\ (\E mount \in Mounts : BeginsWith(asked_, Append(mount, "/")))
          => is_path_safe(path)
=============================================================================
