SPECIFICATION Spec
CONSTANTS
  NPde = 8
  NPte = 7
  TablePage = 9
  KernelTables = 4
  KernelWords = 30
  KernelPde = 4
  IoPde = 7
  BootCeiling = 3
  CodePages = {1, 2}
  MemPages = {0, 1, 2, 3, 4, 5, 6, 7, 8, 9, 10, 11, 12, 13, 14, 15, 16, 17, 18, 19, 20, 21, 22, 23, 24, 25, 26, 27, 28}
  Devices <- MCDevices
INVARIANTS TypeOK UartReachable CodeStays KernelWindow DevicesMapped NoStray
