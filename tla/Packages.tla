------------------------------ MODULE Packages ------------------------------
(***************************************************************************)
(* The package of an update on its way to the installer: Downloader        *)
(* (src/updater/downloader.go), as runUpdate (src/updater/manager.go) uses *)
(* it around the Installer.                                                *)
(*                                                                         *)
(* The file it is written to outlives a failed transfer, a cancel and a    *)
(* crash, so that the next attempt goes on where the last one ended.  Its  *)
(* name is that of the manifest's version; the asset, read a moment later, *)
(* may be of another manifest, and it need not announce a size or a        *)
(* digest: nothing is checked that is not announced.  A package is a       *)
(* sequence of pieces, each known by the release it came from.             *)
(***************************************************************************)
EXTENDS Installer, Sequences

CONSTANTS
  Pieces, \* the pieces of a package
  Tries   \* maxRetries

Release == Version \ {0}

ASSUME PackageAssumption ==
  LastVersion > 0 /\ Pieces \in Nat \ {0} /\ Tries \in Nat \ {0}

VARIABLES
  file,   \* by release: the temporary file of that name, <<>> when there is none
  get,    \* where the goroutine of the update is
  name, asset, \* manifest.Version, and the release CurrentAsset has given
  announced,   \* which of asset.Size and asset.SHA256 the manifest has
  tries,  \* the attempts of this download that have failed
  smooth  \* history: nothing but the content has failed since it began

getVars == <<file, get, name, asset, announced, tries, smooth>>
allVars == <<vars, getVars>>

Whole(r) == [i \in 1 .. Pieces |-> r]

GetInit ==
  /\ Init
  /\ file = [r \in Release |-> <<>>]
  /\ get = "none" /\ name = LastVersion /\ asset = LastVersion /\ announced = {}
  /\ tries = 0 /\ smooth = TRUE

To(where) == get' = where /\ UNCHANGED <<vars, name, asset, announced>>

(* runUpdate asks for the manifest and then for the asset; the checker     *)
(* takes a manifest whatever its assets leave out (checker.go:119).        *)
Ask ==
  /\ get = "none" /\ at = "idle" /\ running # "down"
  /\ get' = "attempt"
  /\ name' \in Release /\ asset' \in Release /\ announced' \in SUBSET {"size", "digest"}
  /\ tries' = 0 /\ smooth' = TRUE
  /\ UNCHANGED <<vars, file>>

-----------------------------------------------------------------------------
(* Download *)

Complete == Len(file[name]) >= Pieces
LooksComplete == "size" \in announced /\ Complete

(* The file is as long as it should be: nothing is transferred. *)
AlreadyThere ==
  /\ get = "attempt" /\ LooksComplete
  /\ To("verify") /\ UNCHANGED <<file, tries, smooth>>

(* The server sends the rest, if a part is there, or all of it. *)
Connect ==
  /\ get = "attempt" /\ ~LooksComplete
  /\ To("transfer")
  /\ \/ file' = [file EXCEPT ![name] = <<>>]
     \/ file[name] # <<>> /\ ~Complete /\ UNCHANGED file
  /\ UNCHANGED <<tries, smooth>>

Piece ==
  /\ get = "transfer" /\ Len(file[name]) < Pieces
  /\ file' = [file EXCEPT ![name] = Append(@, asset)]
  /\ To("transfer")
  /\ UNCHANGED <<tries, smooth>>

(* The end of the body, early or not, is a success for Download. *)
EndOfBody ==
  /\ get = "transfer"
  /\ To("verify") /\ UNCHANGED <<file, tries, smooth>>

Retry == tries' = tries + 1 /\ To(IF tries + 1 = Tries THEN "none" ELSE "attempt")

(* No answer, a bad one, or a transfer that breaks: what has come stays.   *)
AttemptFails ==
  /\ get = "transfer" \/ (get = "attempt" /\ ~LooksComplete)
  /\ Retry
  /\ smooth' = FALSE /\ UNCHANGED file

(* A complete file that is not known to be so: there is nothing after its  *)
(* end to be sent, and the answer (416) counts as a failure.               *)
NothingToSend ==
  /\ get = "attempt" /\ Complete /\ ~LooksComplete
  /\ Retry
  /\ UNCHANGED <<file, smooth>>

(* The context is looked at before an attempt and before a read. *)
Cancelled ==
  /\ get \in {"attempt", "transfer"}
  /\ To("none") /\ smooth' = FALSE /\ UNCHANGED <<file, tries>>

-----------------------------------------------------------------------------
(* Verify, Extract, Install, Cleanup *)

(* An error of Remove is logged at most. *)
Cleanup ==
  \/ file' = [file EXCEPT ![name] = <<>>] /\ UNCHANGED smooth
  \/ smooth' = FALSE /\ UNCHANGED file

VerifyMutant ==
  /\ get = "verify"
  /\ \/ Len(file[name]) = Pieces /\ To("extract") /\ UNCHANGED <<file, smooth>>
     \/ Len(file[name]) # Pieces /\ To("none") /\ Cleanup
  /\ UNCHANGED tries

(* Downloader.Verify: what is not announced is not checked. *)
Verified ==
  /\ "size" \in announced => Len(file[name]) = Pieces
  /\ "digest" \in announced => file[name] = Whole(asset)

VerifyKeepsMutant ==
  /\ get = "verify"
  /\ To(IF Verified THEN "extract" ELSE "none")
  /\ UNCHANGED <<file, tries, smooth>>

Verify ==
  /\ get = "verify"
  /\ \/ Verified /\ To("extract") /\ UNCHANGED <<file, smooth>>
     \/ ~Verified /\ To("none") /\ Cleanup
  /\ UNCHANGED tries

(* What is extracted is installed as it is; a package of pieces that do    *)
(* not belong together, if it can be extracted, has the program of one.    *)
Extract ==
  /\ get = "extract"
  /\ \/ /\ \E i \in DOMAIN file[name] : Begin(file[name][i])
        /\ get' = "install" /\ UNCHANGED <<file, name, asset, announced, smooth>>
     \/ To("none") /\ Cleanup
  /\ UNCHANGED tries

(* Install goes on, and when it returns the file is removed. *)
Installs ==
  /\ get = "install" /\ Install
  /\ IF at' = "idle" THEN get' = "none" /\ Cleanup
                     ELSE UNCHANGED <<get, file, smooth>>
  /\ UNCHANGED <<name, asset, announced, tries>>

(* A crash or a restart, anywhere. *)
Ends ==
  /\ Stop /\ get' = "none" /\ smooth' = FALSE
  /\ UNCHANGED <<file, name, asset, announced, tries>>

Starts == Start /\ UNCHANGED getVars

-----------------------------------------------------------------------------
GetNext ==
  \/ Ask \/ AlreadyThere \/ Connect \/ Piece \/ EndOfBody
  \/ AttemptFails \/ NothingToSend \/ Cancelled
  \/ Verify \/ Extract \/ Installs \/ Ends \/ Starts

GetSpec == GetInit /\ [][GetNext]_allVars

-----------------------------------------------------------------------------
(* Properties *)

(***************************************************************************)
(* What is installed from a manifest with a digest is one whole release,   *)
(* the one announced, although the file may hold pieces of an earlier      *)
(* transfer, of another release under the same name, or of a body that was *)
(* cut.  A size alone keeps away parts only: a left-over of another        *)
(* release that is as long gets through (downloader.go:283).               *)
(***************************************************************************)
OneRelease ==
  at # "idle" =>
    /\ "digest" \in announced => file[name] = Whole(asset) /\ target = asset
    /\ "size" \in announced => Len(file[name]) = Pieces

(***************************************************************************)
(* A left-over cannot spoil update after update: one that ends without a   *)
(* fault of the network, of the disk or of the user leaves no file behind, *)
(* so the next one begins with a download of its own.  It needs a size: a  *)
(* complete file whose size is not announced is asked for beyond its end,  *)
(* again and again (downloader.go:106, :147).                              *)
(***************************************************************************)
LeftoversGo ==
  [][get # "none" /\ get' = "none" /\ smooth' /\ "size" \in announced
       => file'[name] = <<>>]_allVars
=============================================================================
