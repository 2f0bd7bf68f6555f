------------------------------ MODULE HostSetup ------------------------------
(***************************************************************************)
(* Installing opheliad and enrolling the host (daemon/install.py,          *)
(* enrollment.py, identity.py).  Both are confirmed plans of many steps    *)
(* that a crash may cut anywhere; each file is replaced atomically.  The   *)
(* control plane spends the one-time token when it answers the exchange.   *)
(* Releases are named by the digest of their source and built in place.    *)
(***************************************************************************)
EXTENDS Naturals, FiniteSets

CONSTANTS
  Sources,       \* digests of the source trees that are installed
  HostIds,       \* ids an enrollment may ask for
  LocalHost,     \* the id derived from the machine when none is configured
  MaxExchanges,  \* bound on certificates the control plane issues
  MaxSetupCrashes, \* bound on crashes of a command
  Missing        \* no such file

ASSUME SetupConstants == Missing \notin Nat

VARIABLES
  release,       \* releases/<digest>: "partial" has no valid metadata
  currentRelease,       \* the symlink
  configFile,    \* agent.toml
  unit,          \* the systemd unit and the launcher
  identity,      \* host.key, host.crt, trust keys, enrollment.json
  enrollToken,         \* the token file, and whether the control plane has spent it
  certificates,        \* certificates the control plane has issued
  boundTo,       \* host_state: the host the operation journal is bound to
  service,       \* the daemon that systemd runs
  installing, enrolling, rotating,
  setupCrashes

hostFiles == <<release, currentRelease, configFile, unit, identity, boundTo>>
hostSetupVars == <<hostFiles, enrollToken, certificates, service, installing, enrolling, rotating, setupCrashes>>

NotInstalling == [at |-> "idle", source |-> Missing, seen |-> Missing]
NotEnrolling == [at |-> "idle", host |-> Missing, seen |-> Missing, serial |-> 0]
NoIdentity == [key |-> Missing, certificate |-> Missing, trust |-> Missing, enrollment |-> Missing]
PlainConfig == [host |-> LocalHost, agent |-> FALSE]

HostSetupInit ==
  /\ release = [s \in Sources |-> "absent"]
  /\ currentRelease = Missing
  /\ configFile = Missing
  /\ unit = Missing
  /\ identity = NoIdentity
  /\ enrollToken = [file |-> TRUE, spent |-> FALSE]
  /\ certificates = 0
  /\ boundTo = Missing
  /\ service = Missing
  /\ installing = NotInstalling
  /\ enrolling = NotEnrolling
  /\ rotating = Missing
  /\ setupCrashes = 0

-----------------------------------------------------------------------------
(* Starting the daemon.                                                    *)

register_host(host) == boundTo \in {Missing, host}

(* An enabled agent needs every credential file.                           *)
load_daemon_config ==
  /\ configFile # Missing
  /\ configFile.agent => /\ identity.key # Missing
                         /\ identity.certificate # Missing
                         /\ identity.trust # Missing

(* The service comes up with what is on disk, or stays down.               *)
Started ==
  IF load_daemon_config /\ register_host(configFile.host)
  THEN /\ service' = [release |-> currentRelease, agent |-> configFile.agent, host |-> configFile.host,
                      key |-> identity.key, certificate |-> identity.certificate]
       /\ boundTo' = configFile.host
  ELSE service' = Missing /\ UNCHANGED boundTo

-----------------------------------------------------------------------------
(* Faulty variant: a directory that exists is taken for a release.         *)
_release_present(s) == release[s] # "absent"

_release_valid(s) == release[s] = "whole"

daemon_install_plan(s) ==
  [valid |-> _release_valid(s), unit |-> unit, config |-> configFile]

InstallGoes(at) == installing' = [installing EXCEPT !.at = at]

PlanInstall(s) ==
  /\ installing.at = "idle"
  /\ installing' = [at |-> "planned", source |-> s, seen |-> daemon_install_plan(s)]
  /\ UNCHANGED <<hostFiles, enrollToken, certificates, service, enrolling, rotating, setupCrashes>>

(* A plan that no longer matches is refused; a release that is valid is    *)
(* not built again.                                                        *)
BeginInstall ==
  /\ installing.at = "planned"
  /\ installing' = IF daemon_install_plan(installing.source) # installing.seen THEN NotInstalling
                   ELSE [installing EXCEPT !.at = IF _release_valid(installing.source)
                                                  THEN "config" ELSE "clear"]
  /\ UNCHANGED <<hostFiles, enrollToken, certificates, service, enrolling, rotating, setupCrashes>>

(* An unfinished release is renamed out of the way.                        *)
Quarantine ==
  /\ installing.at = "clear"
  /\ release' = [release EXCEPT ![installing.source] = "absent"]
  /\ InstallGoes("build")
  /\ UNCHANGED <<currentRelease, configFile, unit, identity, boundTo, enrollToken, certificates, service,
                 enrolling, rotating, setupCrashes>>

(* The virtual environment, then pip, then the metadata that makes it      *)
(* valid; each may fail.                                                   *)
_install_release ==
  /\ installing.at \in {"build", "metadata"}
  /\ \/ /\ release' = [release EXCEPT ![installing.source] =
                         IF installing.at = "build" THEN "partial" ELSE "whole"]
        /\ InstallGoes(IF installing.at = "build" THEN "metadata" ELSE "config")
     \/ /\ installing' = NotInstalling
        /\ UNCHANGED release
  /\ UNCHANGED <<currentRelease, configFile, unit, identity, boundTo, enrollToken, certificates, service,
                 enrolling, rotating, setupCrashes>>

(* An existing configuration is kept.                                      *)
WriteDefaultConfig ==
  /\ installing.at = "config"
  /\ configFile' = IF configFile = Missing THEN PlainConfig ELSE configFile
  /\ InstallGoes("unit")
  /\ UNCHANGED <<release, currentRelease, unit, identity, boundTo, enrollToken, certificates, service,
                 enrolling, rotating, setupCrashes>>

WriteUnit ==
  /\ installing.at = "unit"
  /\ unit' = installing.source
  /\ InstallGoes("promote")
  /\ UNCHANGED <<release, currentRelease, configFile, identity, boundTo, enrollToken, certificates, service,
                 enrolling, rotating, setupCrashes>>

_promote_release ==
  /\ installing.at = "promote"
  /\ currentRelease' = installing.source
  /\ InstallGoes("activate")
  /\ UNCHANGED <<release, configFile, unit, identity, boundTo, enrollToken, certificates, service,
                 enrolling, rotating, setupCrashes>>

(* Enable and restart, or leave the start to a recovery.                   *)
_activate_service ==
  /\ installing.at = "activate"
  /\ Started \/ UNCHANGED <<service, boundTo>>
  /\ installing' = NotInstalling
  /\ UNCHANGED <<release, currentRelease, configFile, unit, identity, enrollToken, certificates,
                 enrolling, rotating, setupCrashes>>

-----------------------------------------------------------------------------
_operation_journal_observation == boundTo

enrollment_plan(h) ==
  [blocked |-> \/ configFile = Missing
               \/ _operation_journal_observation \notin {Missing, h}
               \/ identity # NoIdentity
               \/ ~enrollToken.file,
   seen    |-> <<configFile, enrollToken.file, identity, _operation_journal_observation>>]

EnrollGoes(at) == enrolling' = [enrolling EXCEPT !.at = at]

PlanEnrollment(h) ==
  /\ enrolling.at = "idle"
  /\ ~enrollment_plan(h).blocked
  /\ enrolling' = [NotEnrolling EXCEPT !.at = "planned", !.host = h, !.seen = enrollment_plan(h)]
  /\ UNCHANGED <<hostFiles, enrollToken, certificates, service, installing, rotating, setupCrashes>>

BeginEnrollment ==
  /\ enrolling.at = "planned"
  /\ enrolling' = IF enrollment_plan(enrolling.host) = enrolling.seen
                  THEN [enrolling EXCEPT !.at = "exchange"] ELSE NotEnrolling
  /\ UNCHANGED <<hostFiles, enrollToken, certificates, service, installing, rotating, setupCrashes>>

(* The control plane issues one certificate per token; the answer may be   *)
(* lost, and a spent token is refused.                                     *)
_exchange_enrollment ==
  /\ enrolling.at = "exchange"
  /\ IF enrollToken.spent \/ certificates = MaxExchanges
     THEN enrolling' = NotEnrolling /\ UNCHANGED <<enrollToken, certificates>>
     ELSE /\ certificates' = certificates + 1
          /\ enrollToken' = [enrollToken EXCEPT !.spent = TRUE]
          /\ \/ enrolling' = [enrolling EXCEPT !.at = "verify", !.serial = certificates + 1]
             \/ enrolling' = NotEnrolling
  /\ UNCHANGED <<hostFiles, service, installing, rotating, setupCrashes>>

(* The certificate is of the generated key and chains to the CA.           *)
_verify_material ==
  /\ enrolling.at = "verify"
  /\ \E good \in BOOLEAN : enrolling' = IF good THEN [enrolling EXCEPT !.at = "key"] ELSE NotEnrolling
  /\ UNCHANGED <<hostFiles, enrollToken, certificates, service, installing, rotating, setupCrashes>>

(* Key, certificate, trust keys and enrollment.json, one file at a time.   *)
(* A key is named by the exchange it was generated for.                    *)
PublishIdentity ==
  LET n == enrolling.serial
      step == [key |-> "certificate", certificate |-> "trust", trust |-> "enrollment",
               enrollment |-> "config"]
      new == [key |-> n, certificate |-> [key |-> n, serial |-> n], trust |-> n,
              enrollment |-> [host |-> enrolling.host, serial |-> n]]
  IN  /\ enrolling.at \in DOMAIN step
      /\ identity' = [identity EXCEPT ![enrolling.at] = new[enrolling.at]]
      /\ EnrollGoes(step[enrolling.at])
      /\ UNCHANGED <<release, currentRelease, configFile, unit, boundTo, enrollToken, certificates, service,
                     installing, rotating, setupCrashes>>

_enable_agent_config ==
  /\ enrolling.at = "config"
  /\ configFile' = [host |-> enrolling.host, agent |-> TRUE]
  /\ EnrollGoes("unlink")
  /\ UNCHANGED <<release, currentRelease, unit, identity, boundTo, enrollToken, certificates, service,
                 installing, rotating, setupCrashes>>

DeleteToken ==
  /\ enrolling.at = "unlink"
  /\ enrollToken' = [enrollToken EXCEPT !.file = FALSE]
  /\ EnrollGoes("restart")
  /\ UNCHANGED <<hostFiles, certificates, service, installing, rotating, setupCrashes>>

RestartEnrolled ==
  /\ enrolling.at = "restart"
  /\ IF currentRelease # Missing THEN Started ELSE UNCHANGED <<service, boundTo>>
  /\ enrolling' = NotEnrolling
  /\ UNCHANGED <<release, currentRelease, configFile, unit, identity, enrollToken, certificates,
                 installing, rotating, setupCrashes>>

(* The operator brings a new token for another attempt.                    *)
NewToken ==
  /\ enrollToken.spent
  /\ enrolling.at = "idle"
  /\ certificates < MaxExchanges
  /\ enrollToken' = [file |-> TRUE, spent |-> FALSE]
  /\ UNCHANGED <<hostFiles, certificates, service, installing, enrolling, rotating, setupCrashes>>

-----------------------------------------------------------------------------
(* host.certificate.rotate, on the agent's thread: a certificate for the   *)
(* same key, then the metadata.  The command is repeated after a crash.    *)
rotate_host_certificate ==
  /\ service # Missing /\ service.agent
  /\ \/ /\ rotating = Missing
        /\ certificates < MaxExchanges
        /\ certificates' = certificates + 1
        /\ identity' = [identity EXCEPT !.certificate = [key |-> identity.key, serial |-> certificates + 1]]
        /\ rotating' = certificates + 1
     \/ /\ rotating # Missing
        /\ identity' = [identity EXCEPT !.enrollment = [host |-> service.host, serial |-> rotating]]
        /\ rotating' = Missing
        /\ UNCHANGED certificates
  /\ UNCHANGED <<release, currentRelease, configFile, unit, boundTo, enrollToken, service,
                 installing, enrolling, setupCrashes>>

(* A command is killed, or the host loses power and systemd starts the     *)
(* daemon again.                                                           *)
SetupCrash ==
  /\ setupCrashes < MaxSetupCrashes
  /\ setupCrashes' = setupCrashes + 1
  /\ \/ /\ installing.at \notin {"idle", "planned"}
        /\ installing' = NotInstalling
        /\ UNCHANGED <<service, boundTo, enrolling, rotating>>
     \/ /\ enrolling.at \notin {"idle", "planned"}
        /\ enrolling' = NotEnrolling
        /\ UNCHANGED <<service, boundTo, installing, rotating>>
     \/ /\ currentRelease # Missing /\ unit # Missing
        /\ Started
        /\ installing' = NotInstalling
        /\ enrolling' = NotEnrolling
        /\ rotating' = Missing
  /\ UNCHANGED <<release, currentRelease, configFile, unit, identity, enrollToken, certificates>>

apply_daemon_install ==
  \/ \E s \in Sources : PlanInstall(s)
  \/ BeginInstall \/ Quarantine \/ _install_release \/ WriteDefaultConfig \/ WriteUnit
  \/ _promote_release \/ _activate_service

apply_enrollment ==
  \/ \E h \in HostIds : PlanEnrollment(h)
  \/ BeginEnrollment \/ _exchange_enrollment \/ _verify_material \/ PublishIdentity
  \/ _enable_agent_config \/ DeleteToken \/ RestartEnrolled \/ NewToken

HostSetupNext ==
  \/ apply_daemon_install
  \/ apply_enrollment
  \/ rotate_host_certificate
  \/ SetupCrash

-----------------------------------------------------------------------------
(* Whatever a crash cuts short, what systemd starts is whole: current      *)
(* names a release that was built to its end; an agent that is switched on *)
(* finds a certificate of its own key; and a daemon speaks for the one     *)
(* host its journal is bound to.                                           *)
HostStartsWhole ==
  /\ currentRelease # Missing => release[currentRelease] = "whole"
  /\ configFile # Missing /\ configFile.agent =>
       /\ identity.certificate.key = identity.key
       /\ identity.trust # Missing
  /\ service # Missing => service.host = boundTo
=============================================================================
