SPECIFICATION Spec
CONSTANTS
  Partitions = {sda1, sda2}
  Labels = {LETUX, BACKUP}
  Mountpoints = {usb0}
  NoLabel = NoLabel
  Nobody = Nobody
  MaxEvents = 2
SYMMETRY MCSymmetry
INVARIANTS
  OnePerPlace
  AllGone
  SettledMounted
