------------------------------- MODULE MCHost -------------------------------
(* The three parts of the host whose work must come to an end, checked for  *)
(* liveness in one run: the onboarding of a joiner, the admin read          *)
(* elevation and the command channel.  They share no state, so a behaviour  *)
(* belongs to one part, chosen at the start: only that part takes steps,    *)
(* and its fairness is the one its own module states.                       *)
EXTENDS Onboarding, ReadElevation, AdminChannel

VARIABLE part

allVars == <<part, onboardingVars, elevationVars, channelVars>>

HostInit ==
    /\ part \in {"onboarding", "elevation", "channel"}
    /\ OnboardingInit /\ ElevationInit /\ ChannelInit

HostNext ==
    /\ UNCHANGED part
    /\ \/ /\ part = "onboarding"
          /\ OnboardingNext
          /\ UNCHANGED <<elevationVars, channelVars>>
       \/ /\ part = "elevation"
          /\ ElevationNext
          /\ UNCHANGED <<onboardingVars, channelVars>>
       \/ /\ part = "channel"
          /\ ChannelNext
          /\ UNCHANGED <<onboardingVars, elevationVars>>

\* The fairness of the chosen part: the actions of the other two stay enabled
\* for ever, so each action is fair only together with its part.
HostFairness ==
    /\ \A j \in Joiners : /\ WF_onboardingVars(part = "onboarding" /\ JoinerStep(j))
                          /\ WF_onboardingVars(part = "onboarding" /\ ScanStep(j))
    /\ \A m \in Messages : WF_onboardingVars(part = "onboarding" /\ TaskStep(m))
    /\ WF_elevationVars(part = "elevation" /\ Tick)
    /\ \A p \in Processes : WF_elevationVars(part = "elevation" /\ Settle(p))
    /\ \A s \in AdminSessions : WF_elevationVars(part = "elevation" /\ TimerFires(s))
    /\ \A c \in XsCommands : WF_channelVars(part = "channel" /\ CommandStep(c))

HostSpec == HostInit /\ [][HostNext]_allVars /\ HostFairness

=============================================================================
