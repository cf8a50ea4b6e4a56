SPECIFICATION Spec
CONSTANTS Inline = 3
          Base = 3
          Wide = 3
          MaxFrame = 9
          DataLens = {4}
          ControlLens = {0}
          GarbledLens = {3}
          SendLens = {4, 9}
          MaxFrames = 3
          MaxSends = 1
INVARIANTS NothingLost WrittenIsReadable SocketReleased
CHECK_DEADLOCK FALSE
