SPECIFICATION VFairSpec
CONSTANTS
  Sessions = {s1, s2}
  Beats = {b1}
  Nothing = Nothing
  NetDepth = 1
  Backlog = 1
INVARIANT OneLease
PROPERTY PressAnswered
PROPERTY MicrophoneReleased
PROPERTY TurnSettles
PROPERTY ReconnectResumes
